---- MODULE Spec2Model ----
(***************************************************************************)
(* Conversation history engine of elsai-chat-history: Message,             *)
(* TokenCounter, TrimmingStrategy, SummarizationStrategy, MemoryStore and  *)
(* ChatHistoryManager, modelled from the *_implementation.py sources.      *)
(*                                                                         *)
(* A message is a record                                                   *)
(*   role, len (characters of content), typ (metadata.type),               *)
(*   upto (metadata.summary_upto), cnt (metadata.original_message_count),  *)
(*   sid (session_id), id (message_id), ts (timestamp).                    *)
(* Python's None / "" / missing key are the values NoId, KeyAbsent/BlankUpto, NoSid.    *)
(***************************************************************************)
EXTENDS Integers, Sequences, FiniteSets, TLC

\* ------------------------------------------------------------------ bounds
MaxLen == 4
MaxMessages == 3
MaxTokens == 4
MaxRecent == 2
MaxOps == 4
MaxCalls == 2
MaxStored == 2

\* ------------------------------------------------------- program constants
chars_per_token == 4
SummaryPrefixLen == 24

\* ------------------------------------------------------ modelling values
NoId == 0
KeyAbsent == -1
BlankUpto == 0
NoSid == "None"
NoLimit == -1
UuidBase == 100

Roles == {"system", "user"}
ContentLens == {2, 8}

\* ---------------------------------------------------------------- Message
\* tsc is metadata["timestamp_created"], which only summaries carry
Message(role, len, typ, upto, cnt, sid, id, ts) ==
    [role |-> role, len |-> len, typ |-> typ, upto |-> upto, cnt |-> cnt,
     sid |-> sid, id |-> id, ts |-> ts, tsc |-> 0]

\* uuid.uuid4() drawn at logical time k: fresh, never a caller-supplied id
Uuid4(k) == UuidBase + k

\* ------------------------------------------------------- Python list slices
\* s[-n:] for n > 0
LastN(s, n) == IF n >= Len(s) THEN s ELSE SubSeq(s, Len(s) - n + 1, Len(s))
\* s[:-n] for n > 0
DropLastN(s, n) == IF n >= Len(s) THEN <<>> ELSE SubSeq(s, 1, Len(s) - n)

Max2(a, b) == IF a >= b THEN a ELSE b

\* ----------------------------------------------------------- TokenCounter
count_tokens(len) ==
    IF len = 0 THEN 0 ELSE Max2(1, len \div chars_per_token)

RECURSIVE SumTokens(_)
SumTokens(s) ==
    IF s = <<>> THEN 0 ELSE count_tokens(Head(s).len) + SumTokens(Tail(s))

\* ------------------------------------------------------- TrimmingStrategy
IsSystem(m) == m.role = "system"
NotSystem(m) == m.role # "system"

\* variant: limits compared with >= instead of >
TrimShouldApplyAtLimit(c, msgs) ==
    \/ c.max_messages # 0 /\ Len(msgs) >= c.max_messages
    \/ c.max_tokens # 0 /\ SumTokens(msgs) >= c.max_tokens

TrimShouldApply(c, msgs) ==
    LET message_count_exceeded ==
            c.max_messages # 0 /\ Len(msgs) > c.max_messages
        token_count_exceeded ==
            c.max_tokens # 0 /\ SumTokens(msgs) > c.max_tokens
    IN message_count_exceeded \/ token_count_exceeded

\* variant: the recent slice is one message short
SeparateMessagesShortRecent(c, msgs) ==
    LET non_system_messages == SelectSeq(msgs, NotSystem)
    IN <<IF c.preserve_system THEN SelectSeq(msgs, IsSystem) ELSE <<>>,
         IF c.preserve_recent > 0
         THEN DropLastN(non_system_messages, c.preserve_recent)
         ELSE non_system_messages,
         IF c.preserve_recent > 1
         THEN LastN(non_system_messages, c.preserve_recent - 1) ELSE <<>>>>

\* <<system_messages, trimmable_messages, recent_messages>>
SeparateMessages(c, msgs) ==
    LET system_messages ==
            IF c.preserve_system THEN SelectSeq(msgs, IsSystem) ELSE <<>>
        non_system_messages == SelectSeq(msgs, NotSystem)
        recent_messages ==
            IF c.preserve_recent > 0
            THEN LastN(non_system_messages, c.preserve_recent) ELSE <<>>
        trimmable_messages ==
            IF c.preserve_recent > 0
            THEN DropLastN(non_system_messages, c.preserve_recent)
            ELSE non_system_messages
    IN <<system_messages, trimmable_messages, recent_messages>>

\* variant: the slice keeps the oldest trimmable messages, not the newest
ApplyMessageLimitOldest(c, system_messages, recent_messages, trimmable_messages) ==
    IF c.max_messages = 0 THEN trimmable_messages
    ELSE LET available_slots ==
                 c.max_messages - Len(system_messages) - Len(recent_messages)
         IN IF available_slots <= 0 THEN <<>>
            ELSE SubSeq(trimmable_messages, 1,
                        IF available_slots < Len(trimmable_messages)
                        THEN available_slots ELSE Len(trimmable_messages))

ApplyMessageLimit(c, system_messages, recent_messages, trimmable_messages) ==
    IF c.max_messages = 0 THEN trimmable_messages
    ELSE LET available_slots ==
                 c.max_messages - Len(system_messages) - Len(recent_messages)
         IN IF available_slots <= 0 THEN <<>>
            ELSE LastN(trimmable_messages, available_slots)

\* variant: an if in place of the while, one message dropped per call
TokenLoopOnce(c, total_tokens, trimmable_messages) ==
    IF total_tokens > c.max_tokens /\ trimmable_messages # <<>>
    THEN Tail(trimmable_messages)
    ELSE trimmable_messages

\* the while loop of _apply_token_limit: pop(0) while over budget
RECURSIVE TokenLoop(_, _, _)
TokenLoop(c, total_tokens, trimmable_messages) ==
    IF total_tokens > c.max_tokens /\ trimmable_messages # <<>>
    THEN TokenLoop(c,
                   total_tokens - count_tokens(Head(trimmable_messages).len),
                   Tail(trimmable_messages))
    ELSE trimmable_messages

\* variant: the tokens of the system messages are left out of the total
ApplyTokenLimitNoSystem(c, system_messages, trimmable_messages, recent_messages) ==
    IF c.max_tokens = 0 THEN trimmable_messages
    ELSE TokenLoop(c, SumTokens(trimmable_messages \o recent_messages),
                   trimmable_messages)

ApplyTokenLimit(c, system_messages, trimmable_messages, recent_messages) ==
    IF c.max_tokens = 0 THEN trimmable_messages
    ELSE TokenLoop(c,
                   SumTokens(system_messages \o trimmable_messages
                             \o recent_messages),
                   trimmable_messages)

TrimManage(c, msgs) ==
    IF ~TrimShouldApply(c, msgs) THEN msgs
    ELSE LET parts == SeparateMessages(c, msgs)
             t1 == ApplyMessageLimit(c, parts[1], parts[3], parts[2])
             t2 == ApplyTokenLimit(c, parts[1], t1, parts[3])
         IN parts[1] \o t2 \o parts[3]

\* -------------------------------------------------- SummarizationStrategy
SummarizerOutLen == 4
SummarizerOutcomes == {"ok", "empty", "raise"}

IsSummary(m) == m.role = "system" /\ m.typ = "summary"
IsPlainSystem(m) == m.role = "system" /\ m.typ # "summary"
IsBlankId(m) == m.id = NoId

SumShouldApply(c, msgs) == Len(msgs) > c.trigger_count

\* messages whose message_id is None or "" get uuid4() values, in list
\* order; k counts the uuid4()/now() draws made so far
RECURSIVE EnsureMessageIds(_, _)
EnsureMessageIds(msgs, k) ==
    IF msgs = <<>> THEN <<>>
    ELSE IF IsBlankId(Head(msgs))
         THEN <<[Head(msgs) EXCEPT !.id = Uuid4(k + 1)]>>
              \o EnsureMessageIds(Tail(msgs), k + 1)
         ELSE <<Head(msgs)>> \o EnsureMessageIds(Tail(msgs), k)

BlankCount(msgs) == Len(SelectSeq(msgs, IsBlankId))

\* index of the message _find_last_summary returns, 0 for None
FindLastSummary(msgs) ==
    LET hits == {i \in 1..Len(msgs) :
                    IsSummary(msgs[i]) /\ msgs[i].upto # KeyAbsent}
    IN IF hits = {} THEN 0
       ELSE CHOOSE i \in hits : \A j \in hits : j <= i

\* variant: the slice starts at the anchor message, not after it
GetMessagesAfterSummaryFromAnchor(msgs, last_summary) ==
    LET summary_upto == last_summary.upto
        found == {i \in 1..Len(msgs) : msgs[i].id = summary_upto}
        NotSummary(m) == m.role # "system" \/ m.typ # "summary"
    IN IF summary_upto = BlankUpto THEN msgs
       ELSE IF found # {}
            THEN LET summary_index ==
                         CHOOSE i \in found : \A j \in found : i <= j
                 IN SubSeq(msgs, summary_index, Len(msgs))
            ELSE SelectSeq(msgs, NotSummary)

GetMessagesAfterSummary(msgs, last_summary) ==
    LET summary_upto == last_summary.upto
        found == {i \in 1..Len(msgs) : msgs[i].id = summary_upto}
        NotSummary(m) == m.role # "system" \/ m.typ # "summary"
    IN IF summary_upto = BlankUpto THEN msgs
       ELSE IF found # {}
            THEN LET summary_index ==
                         CHOOSE i \in found : \A j \in found : i <= j
                 IN SubSeq(msgs, summary_index + 1, Len(msgs))
            ELSE SelectSeq(msgs, NotSummary)

\* variant: only the newest summary is kept in the summary group
CategorizeMessagesLastSummary(c, msgs) ==
    <<IF c.preserve_system THEN SelectSeq(msgs, IsPlainSystem) ELSE <<>>,
      LastN(SelectSeq(msgs, IsSummary), 1),
      SelectSeq(msgs, NotSystem)>>

\* <<system, summary, regular>>
CategorizeMessages(c, msgs) ==
    LET system == IF c.preserve_system
                  THEN SelectSeq(msgs, IsPlainSystem) ELSE <<>>
        summary == SelectSeq(msgs, IsSummary)
        regular == SelectSeq(msgs, NotSystem)
    IN <<system, summary, regular>>

\* variant: the summary is anchored at the first folded message
CreateSummaryMessageFirstId(msgs, summary_upto, k) ==
    [Message("system", SummaryPrefixLen + SummarizerOutLen, "summary",
             msgs[1].id, Len(msgs), NoSid, Uuid4(k), k)
        EXCEPT !.tsc = msgs[Len(msgs)].ts]

\* variant: original_message_count is left at 0
CreateSummaryMessageUncounted(msgs, summary_upto, k) ==
    [Message("system", SummaryPrefixLen + SummarizerOutLen, "summary",
             summary_upto, 0, NoSid, Uuid4(k), k)
        EXCEPT !.tsc = msgs[Len(msgs)].ts]

\* the Message built by _create_summary_message at draw k: session_id is
\* not passed and stays None
CreateSummaryMessage(msgs, summary_upto, k) ==
    [Message("system", SummaryPrefixLen + SummarizerOutLen, "summary",
             summary_upto, Len(msgs), NoSid, Uuid4(k), k)
        EXCEPT !.tsc = msgs[Len(msgs)].ts]

\* messages_to_process of manage, from the list with ids ensured
MessagesToProcess(c, ensured) ==
    LET cat == CategorizeMessages(c, ensured)
        last == FindLastSummary(cat[2])
    IN IF last # 0 THEN GetMessagesAfterSummary(cat[3], cat[2][last])
       ELSE cat[3]

\* variant: the whole working set is handed to the summarizer
SummarizableMessagesAll(c, ensured) == MessagesToProcess(c, ensured)

SummarizableMessages(c, ensured) ==
    IF c.preserve_recent > 0
    THEN DropLastN(MessagesToProcess(c, ensured), c.preserve_recent)
    ELSE MessagesToProcess(c, ensured)

\* variant: a failed summarizer call returns the categorised groups
SumManageGroupsOnFailure(c, msgs, outcome, k) ==
    IF ~SumShouldApply(c, msgs) THEN msgs
    ELSE LET ensured == EnsureMessageIds(msgs, k)
             cat == CategorizeMessages(c, ensured)
             messages_to_process == MessagesToProcess(c, ensured)
             recent_messages ==
                 IF c.preserve_recent > 0
                 THEN LastN(messages_to_process, c.preserve_recent) ELSE <<>>
             summarizable_messages == SummarizableMessages(c, ensured)
         IN IF summarizable_messages = <<>> THEN ensured
            ELSE IF outcome # "ok" THEN cat[1] \o cat[2] \o cat[3]
            ELSE LET summary_upto ==
                         summarizable_messages[Len(summarizable_messages)].id
                     new_summary ==
                         CreateSummaryMessage(summarizable_messages,
                                              summary_upto,
                                              k + BlankCount(msgs) + 1)
                 IN cat[1] \o cat[2] \o <<new_summary>> \o recent_messages

\* variant: the folded messages stay in the result
SumManageKeepFolded(c, msgs, outcome, k) ==
    IF ~SumShouldApply(c, msgs) THEN msgs
    ELSE LET ensured == EnsureMessageIds(msgs, k)
             cat == CategorizeMessages(c, ensured)
             messages_to_process == MessagesToProcess(c, ensured)
             summarizable_messages == SummarizableMessages(c, ensured)
         IN IF summarizable_messages = <<>> THEN ensured
            ELSE IF outcome # "ok" THEN ensured
            ELSE LET summary_upto ==
                         summarizable_messages[Len(summarizable_messages)].id
                     new_summary ==
                         CreateSummaryMessage(summarizable_messages,
                                              summary_upto,
                                              k + BlankCount(msgs) + 1)
                 IN cat[1] \o cat[2] \o <<new_summary>>
                        \o messages_to_process

\* variant: no regular message is removed and the summary is anchored at
\* the oldest of them
SumManageRefold(c, msgs, outcome, k) ==
    IF ~SumShouldApply(c, msgs) THEN msgs
    ELSE LET ensured == EnsureMessageIds(msgs, k)
             cat == CategorizeMessages(c, ensured)
             summarizable_messages == SummarizableMessages(c, ensured)
         IN IF summarizable_messages = <<>> THEN ensured
            ELSE IF outcome # "ok" THEN ensured
            ELSE LET new_summary ==
                         CreateSummaryMessage(<<cat[3][1]>>, cat[3][1].id,
                                              k + BlankCount(msgs) + 1)
                 IN cat[1] \o cat[2] \o <<new_summary>> \o cat[3]

\* variant: a failed summarizer call loses the messages it was given
SumManageDropOnFailure(c, msgs, outcome, k) ==
    IF ~SumShouldApply(c, msgs) THEN msgs
    ELSE LET ensured == EnsureMessageIds(msgs, k)
             cat == CategorizeMessages(c, ensured)
             messages_to_process == MessagesToProcess(c, ensured)
             recent_messages ==
                 IF c.preserve_recent > 0
                 THEN LastN(messages_to_process, c.preserve_recent) ELSE <<>>
             summarizable_messages == SummarizableMessages(c, ensured)
         IN IF summarizable_messages = <<>> THEN ensured
            ELSE IF outcome # "ok"
                 THEN cat[1] \o cat[2] \o recent_messages
            ELSE LET summary_upto ==
                         summarizable_messages[Len(summarizable_messages)].id
                     new_summary ==
                         CreateSummaryMessage(summarizable_messages,
                                              summary_upto,
                                              k + BlankCount(msgs) + 1)
                 IN cat[1] \o cat[2] \o <<new_summary>> \o recent_messages

SumManage(c, msgs, outcome, k) ==
    IF ~SumShouldApply(c, msgs) THEN msgs
    ELSE LET ensured == EnsureMessageIds(msgs, k)
             cat == CategorizeMessages(c, ensured)
             messages_to_process == MessagesToProcess(c, ensured)
             recent_messages ==
                 IF c.preserve_recent > 0
                 THEN LastN(messages_to_process, c.preserve_recent) ELSE <<>>
             summarizable_messages == SummarizableMessages(c, ensured)
         IN IF summarizable_messages = <<>> THEN ensured
            ELSE IF outcome # "ok" THEN ensured
            ELSE LET summary_upto ==
                         summarizable_messages[Len(summarizable_messages)].id
                     new_summary ==
                         CreateSummaryMessage(summarizable_messages,
                                              summary_upto,
                                              k + BlankCount(msgs) + 1)
                 IN cat[1] \o cat[2] \o <<new_summary>> \o recent_messages

\* uuid4()/now() draws made by one SummarizationStrategy.manage call
SumDraws(c, msgs, outcome) ==
    IF ~SumShouldApply(c, msgs) THEN 0
    ELSE BlankCount(msgs)
         + (IF SummarizableMessages(c, EnsureMessageIds(msgs, 0)) # <<>>
               /\ outcome = "ok" THEN 1 ELSE 0)

\* ---------------------------------------------- MemoryStrategy dispatch
Manage(c, msgs, outcome, k) ==
    CASE c.kind = "trim" -> TrimManage(c, msgs)
      [] c.kind = "sum" -> SumManage(c, msgs, outcome, k)
      [] OTHER -> msgs

ManageDraws(c, msgs, outcome) ==
    IF c.kind = "sum" THEN SumDraws(c, msgs, outcome) ELSE 0

ShouldApply(c, msgs) ==
    CASE c.kind = "trim" -> TrimShouldApply(c, msgs)
      [] c.kind = "sum" -> SumShouldApply(c, msgs)
      [] OTHER -> FALSE

\* ------------------------------------------------------------------ state
VARIABLES
    cfg,        \* strategy configuration and auto_save of the manager
    clock,      \* number of uuid4()/datetime.now() draws made so far
    sessions,   \* session ids the callers use
    cache,      \* _ChatHistoryManagerImpl._cache
    storage,    \* MemoryStoreImpl._storage
    last,       \* the last completed manager call and what it returned
    nops,       \* number of manager calls made
    sin, sout, sout2, sphase, soutcome, \* a strategy applied to a bare list
    heap,       \* list objects: heap[o] is the content of list o
    cacheRef,   \* _cache as references, for calls that interleave
    calls,      \* the coroutines in flight: position and local variables
    backend,    \* the ChatHistoryStore implementation in use
    files,      \* JSONStoreImpl: the files of storage_dir, by session id
    table,      \* SQLiteStoreImpl / PostgresStoreImpl: chat_messages rows
    slast       \* the last store call, its arguments and its outcome

mgrVars == <<sessions, cache, storage, last, nops>>
stratVars == <<sin, sout, sout2, sphase, soutcome>>
concVars == <<heap, cacheRef, calls>>
storeVars == <<backend, files, table, slast>>
vars == <<cfg, clock, sessions, cache, storage, last, nops,
          sin, sout, sout2, sphase, soutcome, heap, cacheRef, calls,
          backend, files, table, slast>>

Config(kind, mm, mt, ps, pr, tc, as) ==
    [kind |-> kind, max_messages |-> mm, max_tokens |-> mt,
     preserve_system |-> ps, preserve_recent |-> pr, trigger_count |-> tc,
     auto_save |-> as]

\* TrimmingStrategy(max_messages, max_tokens, preserve_system,
\* preserve_recent); 0 stands for None (both are falsy in the code)
TrimConfigs ==
    {Config("trim", mm, mt, ps, pr, 0, TRUE) :
        mm \in 0..MaxMessages, mt \in 0..MaxTokens, ps \in BOOLEAN,
        pr \in 0..MaxRecent}

\* SummarizationStrategy(summarizer_llm, trigger_count, preserve_recent,
\* preserve_system)
SumConfigs ==
    {Config("sum", 0, 0, ps, pr, tc, TRUE) :
        ps \in BOOLEAN, pr \in 0..MaxRecent, tc \in 0..MaxMessages}

\* ------------------------------------------------------------ Python dict
EmptyDict == [x \in {} |-> <<>>]
DictSet(d, k, v) == [x \in DOMAIN d \cup {k} |-> IF x = k THEN v ELSE d[x]]
DictPop(d, k) == [x \in DOMAIN d \ {k} |-> d[x]]
DictGet(d, k, default) == IF k \in DOMAIN d THEN d[k] ELSE default

\* ------------------------------------------------------------ MemoryStore
\* variant: load_history finds nothing under any key
LoadHistoryNothing(st, s) == <<>>

LoadHistory(st, s) == DictGet(st, s, <<>>)
\* variant: saving extends the persisted list instead of replacing it
SaveHistoryExtend(st, s, msgs) == DictSet(st, s, DictGet(st, s, <<>>) \o msgs)

SaveHistory(st, s, msgs) == DictSet(st, s, msgs)
AppendMessage(st, s, m) == DictSet(st, s, Append(DictGet(st, s, <<>>), m))
\* variant: clearing leaves the key with an empty list
ClearHistoryEmptyList(st, s) == DictSet(st, s, <<>>)

\* variant: clearing one session empties the whole store
ClearHistoryAll(st, s) == EmptyDict

ClearHistory(st, s) == DictPop(st, s)
ListSessions(st) == DOMAIN st

\* ------------------------------------------------------ MessageSerializer
\* datetime.isoformat() of the timestamp drawn at k, and fromisoformat()
IsoFormat(ts) == <<"iso", ts>>
FromIsoFormat(text) == text[2]

\* json.dumps / json.loads of a metadata dict
JsonDumps(value) == <<"json", value>>
JsonLoads(text) == text[2]

\* Message.metadata as a dict
Metadata(m) ==
    [type |-> m.typ, summary_upto |-> m.upto,
     original_message_count |-> m.cnt, timestamp_created |-> m.tsc]

\* MessageSerializer.to_dict and Message.from_dict
ToDict(m) ==
    [role |-> m.role, content |-> m.len, timestamp |-> IsoFormat(m.ts),
     metadata |-> Metadata(m), session_id |-> m.sid, message_id |-> m.id]

FromDict(d) ==
    [role |-> d.role, len |-> d.content, typ |-> d.metadata.type,
     upto |-> d.metadata.summary_upto,
     cnt |-> d.metadata.original_message_count, sid |-> d.session_id,
     id |-> d.message_id, ts |-> FromIsoFormat(d.timestamp),
     tsc |-> d.metadata.timestamp_created]

\* what a load_history call gives: a list, or an exception raised
Loaded(messages) == [ok |-> TRUE, messages |-> messages]
LoadFailed == [ok |-> FALSE, messages |-> <<>>]

\* where a save_history call can fail: stage "none" is a call that succeeds,
\* at is the message being processed
Fault(stage, at) == [stage |-> stage, at |-> at]
NoFault == Fault("none", 0)

\* -------------------------------------------------------------- JSONStore
\* a file is the records json.dump has written and whether the text is a
\* complete JSON document
File(data, complete) == [data |-> data, complete |-> complete]

\* variant: a session without a file is an error
JsonLoadHistoryMissingFails(fs, s) ==
    IF s \notin DOMAIN fs \/ ~fs[s].complete THEN LoadFailed
    ELSE Loaded([i \in 1..Len(fs[s].data) |-> FromDict(fs[s].data[i])])

JsonLoadHistory(fs, s) ==
    IF s \notin DOMAIN fs THEN Loaded(<<>>)
    ELSE IF ~fs[s].complete THEN LoadFailed
    ELSE Loaded([i \in 1..Len(fs[s].data) |-> FromDict(fs[s].data[i])])

\* to_dict of every message comes first, then open(file_path, 'w'), which
\* truncates the file, then json.dump, which writes record after record
JsonSaveHistory(fs, s, msgs, fault) ==
    LET data == [i \in 1..Len(msgs) |-> ToDict(msgs[i])]
    IN CASE fault.stage = "none" -> DictSet(fs, s, File(data, TRUE))
         [] fault.stage = "dump" ->
                DictSet(fs, s, File(SubSeq(data, 1, fault.at - 1), FALSE))
         [] OTHER -> fs

\* a fault before the file is opened leaves the same state whichever
\* message it is at, so the last message stands for all of them
JsonSaveFaults(msgs) ==
    {NoFault, Fault("open", 0)}
    \cup (IF msgs = <<>> THEN {} ELSE {Fault("serialize", Len(msgs))})
    \cup {Fault("dump", k) : k \in 1..Len(msgs)}

JsonClearHistory(fs, s) == DictPop(fs, s)
JsonListSessions(fs) == DOMAIN fs

\* ------------------------------------------- SQLiteStore / PostgresStore
\* a row of chat_messages; the table is kept in id order
SqliteRow(s, m) ==
    [session_id |-> s, role |-> m.role, content |-> m.len,
     timestamp |-> IsoFormat(m.ts), metadata |-> JsonDumps(Metadata(m)),
     message_id |-> m.id]

PostgresRow(s, m) ==
    [session_id |-> s, role |-> m.role, content |-> m.len,
     timestamp |-> m.ts, metadata |-> JsonDumps(Metadata(m)),
     message_id |-> m.id]

\* the message load_history builds from a row: session_id is the argument
\* of the call
SqliteMessage(s, row) ==
    FromDict([role |-> row.role, content |-> row.content,
              timestamp |-> row.timestamp,
              metadata |-> JsonLoads(row.metadata),
              message_id |-> row.message_id, session_id |-> s])

PostgresMessage(s, row) ==
    FromDict([role |-> row.role, content |-> row.content,
              timestamp |-> IsoFormat(row.timestamp),
              metadata |-> JsonLoads(row.metadata),
              message_id |-> row.message_id, session_id |-> s])

RowsOf(tb, s) == LET Mine(row) == row.session_id = s IN SelectSeq(tb, Mine)
RowsNotOf(tb, s) ==
    LET Others(row) == row.session_id # s IN SelectSeq(tb, Others)

SqlLoadHistory(b, tb, s) ==
    Loaded([i \in 1..Len(RowsOf(tb, s)) |->
               IF b = "sqlite" THEN SqliteMessage(s, RowsOf(tb, s)[i])
               ELSE PostgresMessage(s, RowsOf(tb, s)[i])])

\* DELETE and the INSERTs run in one transaction, rolled back when a
\* statement raises
SqlSaveHistory(b, tb, s, msgs, fault) ==
    IF fault.stage # "none" THEN tb
    ELSE RowsNotOf(tb, s)
         \o [i \in 1..Len(msgs) |->
                IF b = "sqlite" THEN SqliteRow(s, msgs[i])
                ELSE PostgresRow(s, msgs[i])]

\* the rollback leaves the same state whichever INSERT raises, so the last
\* one stands for all of them
SqlSaveFaults(msgs) ==
    {NoFault}
    \cup (IF msgs = <<>> THEN {} ELSE {Fault("insert", Len(msgs))})

SqlAppendMessage(b, tb, s, m) ==
    Append(tb, IF b = "sqlite" THEN SqliteRow(s, m) ELSE PostgresRow(s, m))

\* variant: the DELETE removes the oldest row of the session only
SqlClearHistoryOneRow(tb, s) ==
    LET first == CHOOSE i \in 1..(Len(tb) + 1) :
                     /\ i <= Len(tb) => tb[i].session_id = s
                     /\ \A j \in 1..(i - 1) : tb[j].session_id # s
    IN [i \in 1..(Len(tb) - (IF first <= Len(tb) THEN 1 ELSE 0)) |->
           IF i < first THEN tb[i] ELSE tb[i + 1]]

SqlClearHistory(tb, s) == RowsNotOf(tb, s)
SqlListSessions(tb) == {tb[i].session_id : i \in 1..Len(tb)}

\* ----------------------------------------------------- ChatHistoryManager
NullMsg == Message("none", 0, "none", KeyAbsent, 0, NoSid, NoId, 0)

Call(op, s, role, len, mid, force, msg, ret) ==
    [op |-> op, sid |-> s, role |-> role, len |-> len, mid |-> mid,
     force |-> force, msg |-> msg, ret |-> ret]

\* the Message add_message constructs at draw k
NewMessage(s, role, len, mid, k) ==
    Message(role, len, "none", KeyAbsent, 0, s,
            IF mid = NoId THEN Uuid4(k) ELSE mid, k)

\* the list add_message appends to: the cache entry, loaded on a miss
CachedOrLoaded(ca, st, s) ==
    IF s \in DOMAIN ca THEN ca[s] ELSE LoadHistory(st, s)

\* the list add_message leaves in the cache
AddResult(c, ca, st, s, message, outcome, k) ==
    Manage(c, Append(CachedOrLoaded(ca, st, s), message), outcome, k)

\* what add_message returns
AddReturn(message, managed) == message

\* variant: get_history reloads from the store on every call
GetHistoryCacheReload(ca, st, s, force_reload) ==
    DictSet(ca, s, LoadHistory(st, s))

\* the cache after get_history, and what get_history returns
GetHistoryCache(ca, st, s, force_reload) ==
    IF force_reload \/ s \notin DOMAIN ca
    THEN DictSet(ca, s, LoadHistory(st, s)) ELSE ca

GetHistoryReturn(ca, st, s, force_reload) ==
    GetHistoryCache(ca, st, s, force_reload)[s]

MgrIdle ==
    /\ sessions = {}
    /\ cache = EmptyDict
    /\ storage = EmptyDict
    /\ last = Call("init", "A", "none", 0, NoId, FALSE, NullMsg, <<>>)
    /\ nops = 0

ConcIdle ==
    /\ heap = <<>>
    /\ cacheRef = EmptyDict
    /\ calls = <<>>

StratIdle ==
    /\ sin = <<>>
    /\ sout = <<>>
    /\ sout2 = <<>>
    /\ sphase = "off"
    /\ soutcome = "ok"

\* a store call, its arguments and its outcome: before is what load_history
\* gave when the call started (left out for a save_history that succeeds,
\* whose effect does not depend on it), ret and listed what the call
\* returned
StoreCall(op, s, msgs, ok, before, ret, listed) ==
    [op |-> op, sid |-> s, msgs |-> msgs, ok |-> ok, before |-> before,
     ret |-> ret, listed |-> listed]

StoreIdle ==
    /\ backend = "memory"
    /\ files = EmptyDict
    /\ table = <<>>
    /\ slast = StoreCall("init", "A", <<>>, TRUE, Loaded(<<>>), Loaded(<<>>),
                         {})

AddMessage(s, role, len, mid, outcome) ==
    LET message == NewMessage(s, role, len, mid, clock + 1)
        managed == AddResult(cfg, cache, storage, s, message, outcome,
                             clock + 1)
        before == Append(CachedOrLoaded(cache, storage, s), message)
    IN /\ nops < MaxOps
       /\ nops' = nops + 1
       /\ clock' = clock + 1 + ManageDraws(cfg, before, outcome)
       /\ cache' = DictSet(cache, s, managed)
       /\ storage' = IF cfg.auto_save THEN SaveHistory(storage, s, managed)
                     ELSE storage
       /\ last' = Call("add", s, role, len, mid, FALSE,
                       AddReturn(message, managed), <<>>)
       /\ UNCHANGED <<cfg, sessions>>
       /\ UNCHANGED <<stratVars, concVars, storeVars>>

GetHistory(s, force_reload) ==
    /\ nops < MaxOps
    /\ nops' = nops + 1
    /\ cache' = GetHistoryCache(cache, storage, s, force_reload)
    /\ last' = Call("get", s, "none", 0, NoId, force_reload, NullMsg,
                    GetHistoryReturn(cache, storage, s, force_reload))
    /\ UNCHANGED <<cfg, clock, sessions, storage>>
    /\ UNCHANGED <<stratVars, concVars, storeVars>>

ClearSession(s) ==
    /\ nops < MaxOps
    /\ nops' = nops + 1
    /\ storage' = ClearHistory(storage, s)
    /\ cache' = DictPop(cache, s)
    /\ last' = Call("clear", s, "none", 0, NoId, FALSE, NullMsg, <<>>)
    /\ UNCHANGED <<cfg, clock, sessions>>
    /\ UNCHANGED <<stratVars, concVars, storeVars>>

SaveSession(s) ==
    /\ nops < MaxOps
    /\ nops' = nops + 1
    /\ storage' = IF s \in DOMAIN cache
                  THEN SaveHistory(storage, s, cache[s]) ELSE storage
    /\ last' = Call("save", s, "none", 0, NoId, FALSE, NullMsg, <<>>)
    /\ UNCHANGED <<cfg, clock, sessions, cache>>
    /\ UNCHANGED <<stratVars, concVars, storeVars>>

\* role_counts of get_session_stats: a dict keyed by the roles present
RoleCounts(messages) ==
    [r \in {messages[i].role : i \in 1..Len(messages)} |->
        Cardinality({i \in 1..Len(messages) : messages[i].role = r})]

\* the dict get_session_stats returns, timestamps as draw numbers and 0 for
\* None
SessionStats(messages) ==
    [total_messages |-> Len(messages),
     role_distribution |-> RoleCounts(messages),
     summary_count |->
         Cardinality({i \in 1..Len(messages) : messages[i].typ = "summary"}),
     first_message |-> IF messages # <<>> THEN messages[1].ts ELSE 0,
     last_message |->
         IF messages # <<>> THEN messages[Len(messages)].ts ELSE 0]

\* variant: the list is cut to its last max_messages before it is filtered
ContextOfLimitFirst(messages, max_messages, roles) ==
    LET InRoles(m) == m.role \in roles
        limited == IF max_messages # NoLimit /\ max_messages # 0
                   THEN LastN(messages, max_messages) ELSE messages
        by_role == IF roles # {} THEN SelectSeq(limited, InRoles)
                   ELSE limited
    IN [i \in 1..Len(by_role) |->
           [role |-> by_role[i].role, content |-> by_role[i].len]]

\* the list get_context returns; roles {} is None or an empty list, both
\* falsy; max_messages is NoLimit for None, and 0 is falsy like None
ContextOf(messages, max_messages, roles) ==
    LET InRoles(m) == m.role \in roles
        by_role == IF roles # {} THEN SelectSeq(messages, InRoles)
                   ELSE messages
        limited == IF max_messages # NoLimit /\ max_messages # 0
                   THEN LastN(by_role, max_messages) ELSE by_role
    IN [i \in 1..Len(limited) |->
           [role |-> limited[i].role, content |-> limited[i].len]]

ContextCall(s, max_messages, roles, ret) ==
    [op |-> "context", sid |-> s, role |-> "none", len |-> 0, mid |-> NoId,
     force |-> FALSE, msg |-> NullMsg, ret |-> ret,
     max_messages |-> max_messages, roles |-> roles]

GetContext(s, max_messages, roles) ==
    /\ nops < MaxOps
    /\ nops' = nops + 1
    /\ cache' = GetHistoryCache(cache, storage, s, FALSE)
    /\ last' = ContextCall(s, max_messages, roles,
                           ContextOf(GetHistoryReturn(cache, storage, s,
                                                      FALSE),
                                     max_messages, roles))
    /\ UNCHANGED <<cfg, clock, sessions, storage>>
    /\ UNCHANGED <<stratVars, concVars, storeVars>>

GetSessionStats(s) ==
    /\ nops < MaxOps
    /\ nops' = nops + 1
    /\ cache' = GetHistoryCache(cache, storage, s, FALSE)
    /\ last' = Call("stats", s, "none", 0, NoId, FALSE, NullMsg,
                    <<SessionStats(GetHistoryReturn(cache, storage, s,
                                                    FALSE))>>)
    /\ UNCHANGED <<cfg, clock, sessions, storage>>
    /\ UNCHANGED <<stratVars, concVars, storeVars>>

\* configurations the manager is constructed with
NoStrategy(as) == Config("none", 0, 0, TRUE, 0, 0, as)

ManagerConfigs ==
    {NoStrategy(as) : as \in BOOLEAN}
    \cup {Config("trim", mm, mt, ps, pr, 0, as) :
            mm \in {0, MaxMessages - 1}, mt \in {0, MaxTokens - 1},
            ps \in BOOLEAN, pr \in {0, MaxRecent - 1}, as \in BOOLEAN}
    \cup {Config("sum", 0, 0, ps, pr, MaxMessages - 1, as) :
            ps \in BOOLEAN, pr \in {0, MaxRecent - 1}, as \in BOOLEAN}

\* arguments callers pass to add_message under configuration c
AddLens(c) == IF c.max_tokens # 0 THEN ContentLens ELSE {2}
AddOutcomes(c) == IF c.kind = "sum" THEN SummarizerOutcomes ELSE {"ok"}
AddIds == {NoId, 1}

Init ==
    /\ cfg \in ManagerConfigs
    /\ clock = 0
    /\ sessions = {"A"}
    /\ cache = EmptyDict
    /\ storage = EmptyDict
    /\ last = Call("init", "A", "none", 0, NoId, FALSE, NullMsg, <<>>)
    /\ nops = 0
    /\ StratIdle
    /\ ConcIdle
    /\ StoreIdle

AddMessageCall ==
    \E s \in sessions, role \in Roles, len \in AddLens(cfg), mid \in AddIds,
       o \in AddOutcomes(cfg) : AddMessage(s, role, len, mid, o)

GetHistoryCall ==
    \E s \in sessions, force_reload \in BOOLEAN : GetHistory(s, force_reload)

ClearSessionCall == \E s \in sessions : ClearSession(s)

SaveSessionCall == \E s \in sessions : SaveSession(s)

\* arguments callers pass to get_context
ContextLimits == {NoLimit} \cup 0..(MaxMessages - 1)
ContextRoles == {{}, {"user"}}

GetContextCall ==
    \E s \in sessions, max_messages \in ContextLimits,
       roles \in ContextRoles : GetContext(s, max_messages, roles)

GetSessionStatsCall == \E s \in sessions : GetSessionStats(s)

Next ==
    \/ AddMessageCall
    \/ GetHistoryCall
    \/ ClearSessionCall
    \/ SaveSessionCall
    \/ GetContextCall
    \/ GetSessionStatsCall

Spec == Init /\ [][Next]_vars

\* ------------------------- a session whose Summarizer always succeeds
SumOkConfigs ==
    {Config("sum", 0, 0, ps, pr, tc, as) :
        ps \in BOOLEAN, pr \in 0..(MaxRecent - 1),
        tc \in 1..(MaxMessages - 1), as \in BOOLEAN}

SumOkInit ==
    /\ cfg \in SumOkConfigs
    /\ clock = 0
    /\ sessions = {"A"}
    /\ cache = EmptyDict
    /\ storage = EmptyDict
    /\ last = Call("init", "A", "none", 0, NoId, FALSE, NullMsg, <<>>)
    /\ nops = 0
    /\ StratIdle
    /\ ConcIdle
    /\ StoreIdle

AddMessageOk ==
    \E s \in sessions, role \in Roles, mid \in AddIds :
        AddMessage(s, role, 2, mid, "ok")

SumOkNext == AddMessageOk

SpecSumOk == SumOkInit /\ [][SumOkNext]_vars

\* ------------------------------------------- the stores, called directly
Backends == {"memory", "json", "sqlite", "postgres"}
SqlBackends == {"sqlite", "postgres"}

\* what load_history(s) gives in the state <<b, st, fs, tb>>
PersistedIn(b, st, fs, tb, s) ==
    CASE b = "memory" -> Loaded(LoadHistory(st, s))
      [] b = "json" -> JsonLoadHistory(fs, s)
      [] OTHER -> SqlLoadHistory(b, tb, s)

Persisted(s) == PersistedIn(backend, storage, files, table, s)

SaveFaults(b, msgs) ==
    CASE b = "memory" -> {NoFault}
      [] b = "json" -> JsonSaveFaults(msgs)
      [] OTHER -> SqlSaveFaults(msgs)

\* what list_sessions() gives in the state <<b, st, fs, tb>>
ListedIn(b, st, fs, tb) ==
    CASE b = "memory" -> ListSessions(st)
      [] b = "json" -> JsonListSessions(fs)
      [] OTHER -> SqlListSessions(tb)

Listed == ListedIn(backend, storage, files, table)

\* the state a store call leaves, as <<storage, files, table>> of backend b
StoreState(st, fs, tb) == [storage |-> st, files |-> fs, table |-> tb]

SavedIn(b, st, fs, tb, s, msgs, fault) ==
    CASE b = "memory" -> StoreState(SaveHistory(st, s, msgs), fs, tb)
      [] b = "json" ->
             StoreState(st, JsonSaveHistory(fs, s, msgs, fault), tb)
      [] OTHER -> StoreState(st, fs, SqlSaveHistory(b, tb, s, msgs, fault))

ClearedIn(b, st, fs, tb, s) ==
    CASE b = "memory" -> StoreState(ClearHistory(st, s), fs, tb)
      [] b = "json" -> StoreState(st, JsonClearHistory(fs, s), tb)
      [] OTHER -> StoreState(st, fs, SqlClearHistory(tb, s))

StoreSaveHistory(s, msgs, fault) ==
    /\ fault \in SaveFaults(backend, msgs)
    /\ storage' = IF backend = "memory" THEN SaveHistory(storage, s, msgs)
                  ELSE storage
    /\ files' = IF backend = "json"
                THEN JsonSaveHistory(files, s, msgs, fault) ELSE files
    /\ table' = IF backend \in SqlBackends
                THEN SqlSaveHistory(backend, table, s, msgs, fault)
                ELSE table
    /\ slast' = StoreCall("save", s, msgs, fault.stage = "none",
                          IF fault.stage = "none" THEN Loaded(<<>>)
                          ELSE Persisted(s),
                          Loaded(<<>>), {})
    /\ UNCHANGED <<cfg, clock, sessions, cache, last, nops, backend>>
    /\ UNCHANGED <<stratVars, concVars>>

\* JSONStore appends by load_history, list.append and save_history
StoreAppendMessage(s, m) ==
    /\ Len(Persisted(s).messages) < MaxStored
    /\ storage' = IF backend = "memory" THEN AppendMessage(storage, s, m)
                  ELSE storage
    /\ files' = IF backend = "json" /\ Persisted(s).ok
                THEN JsonSaveHistory(files, s,
                                     Append(Persisted(s).messages, m),
                                     NoFault)
                ELSE files
    /\ table' = IF backend \in SqlBackends
                THEN SqlAppendMessage(backend, table, s, m) ELSE table
    /\ slast' = StoreCall("append", s, <<m>>, Persisted(s).ok, Persisted(s),
                          Loaded(<<>>), {})
    /\ UNCHANGED <<cfg, clock, sessions, cache, last, nops, backend>>
    /\ UNCHANGED <<stratVars, concVars>>

StoreClearHistory(s) ==
    /\ storage' = IF backend = "memory" THEN ClearHistory(storage, s)
                  ELSE storage
    /\ files' = IF backend = "json" THEN JsonClearHistory(files, s)
                ELSE files
    /\ table' = IF backend \in SqlBackends THEN SqlClearHistory(table, s)
                ELSE table
    /\ slast' = StoreCall("clear", s, <<>>, TRUE, Persisted(s), Loaded(<<>>),
                          {})
    /\ UNCHANGED <<cfg, clock, sessions, cache, last, nops, backend>>
    /\ UNCHANGED <<stratVars, concVars>>

StoreLoadHistory(s) ==
    /\ slast' = StoreCall("load", s, <<>>, Persisted(s).ok, Persisted(s),
                          Persisted(s), {})
    /\ UNCHANGED <<cfg, clock, sessions, cache, storage, last, nops>>
    /\ UNCHANGED <<backend, files, table>>
    /\ UNCHANGED <<stratVars, concVars>>

StoreListSessions ==
    /\ slast' = StoreCall("list", "A", <<>>, TRUE, Loaded(<<>>),
                          Loaded(<<>>),
                          CASE backend = "memory" -> ListSessions(storage)
                            [] backend = "json" -> JsonListSessions(files)
                            [] OTHER -> SqlListSessions(table))
    /\ UNCHANGED <<cfg, clock, sessions, cache, storage, last, nops>>
    /\ UNCHANGED <<backend, files, table>>
    /\ UNCHANGED <<stratVars, concVars>>

\* messages a manager hands to the store of session s: one it constructed
\* and, for session A, a summary of the strategy
StoreMessages(s) ==
    {NewMessage(s, "user", 2, 1, 1)}
    \cup (IF s = "A"
          THEN {CreateSummaryMessage(<<NewMessage(s, "user", 2, 1, 1)>>, 1, 2)}
          ELSE {})

SeqsUpTo(S, n) == UNION {[1..k -> S] : k \in 0..n}

StoreInit ==
    /\ backend \in Backends
    /\ files = EmptyDict
    /\ table = <<>>
    /\ slast = StoreCall("init", "A", <<>>, TRUE, Loaded(<<>>), Loaded(<<>>),
                         {})
    /\ cfg = NoStrategy(TRUE)
    /\ clock = 0
    /\ sessions = {"A", "B"}
    /\ cache = EmptyDict
    /\ storage = EmptyDict
    /\ last = Call("init", "A", "none", 0, NoId, FALSE, NullMsg, <<>>)
    /\ nops = 0
    /\ StratIdle
    /\ ConcIdle

StoreSaveHistoryCall ==
    \E s \in sessions : \E msgs \in SeqsUpTo(StoreMessages(s), MaxStored) :
        \E fault \in SaveFaults(backend, msgs) :
            StoreSaveHistory(s, msgs, fault)

StoreAppendMessageCall ==
    \E s \in sessions : \E m \in StoreMessages(s) : StoreAppendMessage(s, m)

StoreClearHistoryCall == \E s \in sessions : StoreClearHistory(s)

StoreLoadHistoryCall == \E s \in sessions : StoreLoadHistory(s)

StoreNext ==
    \/ StoreSaveHistoryCall
    \/ StoreAppendMessageCall
    \/ StoreClearHistoryCall
    \/ StoreLoadHistoryCall
    \/ StoreListSessions

SpecStore == StoreInit /\ [][StoreNext]_vars

\* ------------------- one sequence of store calls made on three stores alike
\* MemoryStore (storage), JSONStore (files) and SQLiteStore (table) each
\* receive every call; no call fails

\* messages built for session s with every field set: a caller's message
\* and a plain system message
WellFormedMessages(s) ==
    {NewMessage(s, "user", 2, 1, 1), NewMessage(s, "system", 8, 2, 2)}

EachSaveHistory(s, msgs) ==
    /\ storage' = SaveHistory(storage, s, msgs)
    /\ files' = JsonSaveHistory(files, s, msgs, NoFault)
    /\ table' = SqlSaveHistory("sqlite", table, s, msgs, NoFault)
    /\ slast' = StoreCall("save", s, msgs, TRUE, Loaded(<<>>), Loaded(<<>>),
                          {})
    /\ UNCHANGED <<cfg, clock, sessions, cache, last, nops, backend>>
    /\ UNCHANGED <<stratVars, concVars>>

EachAppendMessage(s, m) ==
    /\ Len(LoadHistory(storage, s)) < MaxStored
    /\ JsonLoadHistory(files, s).ok
    /\ storage' = AppendMessage(storage, s, m)
    /\ files' = JsonSaveHistory(files, s,
                                Append(JsonLoadHistory(files, s).messages, m),
                                NoFault)
    /\ table' = SqlAppendMessage("sqlite", table, s, m)
    /\ slast' = StoreCall("append", s, <<m>>, TRUE, Loaded(<<>>),
                          Loaded(<<>>), {})
    /\ UNCHANGED <<cfg, clock, sessions, cache, last, nops, backend>>
    /\ UNCHANGED <<stratVars, concVars>>

EachClearHistory(s) ==
    /\ storage' = ClearHistory(storage, s)
    /\ files' = JsonClearHistory(files, s)
    /\ table' = SqlClearHistory(table, s)
    /\ slast' = StoreCall("clear", s, <<>>, TRUE, Loaded(<<>>), Loaded(<<>>),
                          {})
    /\ UNCHANGED <<cfg, clock, sessions, cache, last, nops, backend>>
    /\ UNCHANGED <<stratVars, concVars>>

EachInit ==
    /\ backend = "memory"
    /\ storage = EmptyDict
    /\ files = EmptyDict
    /\ table = <<>>
    /\ slast = StoreCall("init", "A", <<>>, TRUE, Loaded(<<>>), Loaded(<<>>),
                         {})
    /\ cfg = NoStrategy(TRUE)
    /\ clock = 0
    /\ sessions = {"A", "B"}
    /\ cache = EmptyDict
    /\ last = Call("init", "A", "none", 0, NoId, FALSE, NullMsg, <<>>)
    /\ nops = 0
    /\ StratIdle
    /\ ConcIdle

EachSaveHistoryCall ==
    \E s \in sessions :
        \E msgs \in SeqsUpTo(WellFormedMessages(s), MaxStored) :
            EachSaveHistory(s, msgs)

EachAppendMessageCall ==
    \E s \in sessions : \E m \in WellFormedMessages(s) :
        EachAppendMessage(s, m)

EachClearHistoryCall == \E s \in sessions : EachClearHistory(s)

EachNext ==
    \/ EachSaveHistoryCall
    \/ EachAppendMessageCall
    \/ EachClearHistoryCall

SpecEach == EachInit /\ [][EachNext]_vars

\* ------------------ the manager over any store, with store calls that fail
\* the exception a failing store call raises, and no exception
StoreException(b, call) == [store |-> b, call |-> call]
NoException == [store |-> "none", call |-> "none"]

\* where a load_history call can fail: the connection of a relational
\* store; a JSONStore load fails on a file that is not a JSON document
LoadFaults(b) ==
    IF b \in SqlBackends THEN {NoFault, Fault("connect", 0)} ELSE {NoFault}

\* variant: a load_history that raises is taken as an empty history
LoadedInEmptyOnError(b, st, fs, tb, s, fault) ==
    IF fault.stage # "none" \/ ~PersistedIn(b, st, fs, tb, s).ok
    THEN Loaded(<<>>) ELSE PersistedIn(b, st, fs, tb, s)

\* what the manager's await store.load_history(s) gives
LoadedIn(b, st, fs, tb, s, fault) ==
    IF fault.stage # "none" THEN LoadFailed ELSE PersistedIn(b, st, fs, tb, s)

\* a manager call: what it returned (msg, ret), whether it returned or
\* raised (ok, err) and how many times it called store.load_history
MgrCall(op, s, force, msg, ret, ok, err, loads) ==
    [op |-> op, sid |-> s, force |-> force, msg |-> msg, ret |-> ret,
     ok |-> ok, err |-> err, loads |-> loads]

StoreBecomes(state) ==
    /\ storage' = state.storage
    /\ files' = state.files
    /\ table' = state.table

\* the list save_session hands to store.save_history
SaveSessionList(ca, loaded, s) == ca[s]

\* variant: clear_session leaves the cache entry
ClearSessionCacheKept(ca, s) == ca

\* the cache clear_session leaves
ClearSessionCache(ca, s) == DictPop(ca, s)

\* variant: the cache entry is put back when the auto-save fails
CacheAfterAddRolledBack(ca, s, managed, sfault) ==
    IF sfault.stage = "none" THEN DictSet(ca, s, managed) ELSE ca

\* the cache add_message leaves once the strategy has run, whatever the
\* auto-save that follows does
CacheAfterAdd(ca, s, managed, sfault) == DictSet(ca, s, managed)

AddMessageOn(s, role, len, mid, outcome, lfault, sfault) ==
    LET message == NewMessage(s, role, len, mid, clock + 1)
        miss == s \notin DOMAIN cache
        loaded == IF miss
                  THEN LoadedIn(backend, storage, files, table, s, lfault)
                  ELSE Loaded(cache[s])
        appended == Append(loaded.messages, message)
        managed == Manage(cfg, appended, outcome, clock + 1)
        saves == loaded.ok /\ cfg.auto_save
    IN /\ nops < MaxOps
       /\ lfault \in (IF miss THEN LoadFaults(backend) ELSE {NoFault})
       /\ sfault \in (IF saves THEN SaveFaults(backend, managed)
                      ELSE {NoFault})
       /\ nops' = nops + 1
       /\ IF ~loaded.ok
          THEN /\ clock' = clock + 1
               /\ cache' = cache
               /\ StoreBecomes(StoreState(storage, files, table))
               /\ last' = MgrCall("add", s, FALSE, NullMsg, <<>>, FALSE,
                                  StoreException(backend, "load_history"), 1)
          ELSE /\ clock' = clock + 1 + ManageDraws(cfg, appended, outcome)
               /\ cache' = CacheAfterAdd(cache, s, managed, sfault)
               /\ StoreBecomes(IF saves
                               THEN SavedIn(backend, storage, files, table,
                                            s, managed, sfault)
                               ELSE StoreState(storage, files, table))
               /\ last' = IF sfault.stage = "none"
                          THEN MgrCall("add", s, FALSE, message, <<>>, TRUE,
                                       NoException, IF miss THEN 1 ELSE 0)
                          ELSE MgrCall("add", s, FALSE, NullMsg, <<>>, FALSE,
                                       StoreException(backend,
                                                      "save_history"),
                                       IF miss THEN 1 ELSE 0)
       /\ UNCHANGED <<cfg, sessions, backend, slast>>
       /\ UNCHANGED <<stratVars, concVars>>

\* variant: force_reload is ignored, the store is read on a miss only
ReloadsOnMiss(ca, s, force_reload) == s \notin DOMAIN ca

\* whether get_history reads the store
Reloads(ca, s, force_reload) == force_reload \/ s \notin DOMAIN ca

GetHistoryOn(s, force_reload, lfault) ==
    LET reload == Reloads(cache, s, force_reload)
        loaded == IF reload
                  THEN LoadedIn(backend, storage, files, table, s, lfault)
                  ELSE Loaded(cache[s])
    IN /\ nops < MaxOps
       /\ lfault \in (IF reload THEN LoadFaults(backend) ELSE {NoFault})
       /\ nops' = nops + 1
       /\ cache' = IF reload /\ loaded.ok
                   THEN DictSet(cache, s, loaded.messages) ELSE cache
       /\ last' = IF loaded.ok
                  THEN MgrCall("get", s, force_reload, NullMsg,
                               loaded.messages, TRUE, NoException,
                               IF reload THEN 1 ELSE 0)
                  ELSE MgrCall("get", s, force_reload, NullMsg, <<>>, FALSE,
                               StoreException(backend, "load_history"), 1)
       /\ UNCHANGED <<cfg, clock, sessions, storage, storeVars>>
       /\ UNCHANGED <<stratVars, concVars>>

ClearSessionOn(s) ==
    /\ nops < MaxOps
    /\ nops' = nops + 1
    /\ StoreBecomes(ClearedIn(backend, storage, files, table, s))
    /\ cache' = ClearSessionCache(cache, s)
    /\ last' = MgrCall("clear", s, FALSE, NullMsg, <<>>, TRUE, NoException,
                       0)
    /\ UNCHANGED <<cfg, clock, sessions, backend, slast>>
    /\ UNCHANGED <<stratVars, concVars>>

SaveSessionOn(s, sfault) ==
    LET cached == s \in DOMAIN cache
        msgs == IF cached THEN SaveSessionList(cache, Persisted(s), s)
                ELSE <<>>
    IN /\ nops < MaxOps
       /\ sfault \in (IF cached THEN SaveFaults(backend, msgs)
                      ELSE {NoFault})
       /\ nops' = nops + 1
       /\ StoreBecomes(IF cached
                       THEN SavedIn(backend, storage, files, table, s, msgs,
                                    sfault)
                       ELSE StoreState(storage, files, table))
       /\ last' = IF sfault.stage = "none"
                  THEN MgrCall("save", s, FALSE, NullMsg, <<>>, TRUE,
                               NoException, 0)
                  ELSE MgrCall("save", s, FALSE, NullMsg, <<>>, FALSE,
                               StoreException(backend, "save_history"), 0)
       /\ UNCHANGED <<cfg, clock, sessions, cache, backend, slast>>
       /\ UNCHANGED <<stratVars, concVars>>

\* list_sessions returns what the store lists, in last.ret as a set
ListSessionsOn ==
    /\ nops < MaxOps
    /\ nops' = nops + 1
    /\ last' = MgrCall("list", "A", FALSE, NullMsg, Listed, TRUE,
                       NoException, 0)
    /\ UNCHANGED <<cfg, clock, sessions, cache, storage, storeVars>>
    /\ UNCHANGED <<stratVars, concVars>>

\* a new manager is constructed over the same store: its cache is empty
NewManager ==
    /\ nops < MaxOps
    /\ nops' = nops + 1
    /\ cache' = EmptyDict
    /\ last' = MgrCall("new", "A", FALSE, NullMsg, <<>>, TRUE, NoException,
                       0)
    /\ UNCHANGED <<cfg, clock, sessions, storage, storeVars>>
    /\ UNCHANGED <<stratVars, concVars>>

\* configurations of the manager: no strategy, or a Summarization that
\* folds as soon as the list holds two messages
BackedConfigs ==
    {NoStrategy(as) : as \in BOOLEAN}
    \cup {Config("sum", 0, 0, TRUE, 0, 1, as) : as \in BOOLEAN}

BackedInit ==
    /\ backend \in Backends
    /\ cfg \in BackedConfigs
    /\ clock = 0
    /\ sessions = {"A"}
    /\ cache = EmptyDict
    /\ storage = EmptyDict
    /\ files = EmptyDict
    /\ table = <<>>
    /\ last = MgrCall("init", "A", FALSE, NullMsg, <<>>, TRUE, NoException,
                      0)
    /\ slast = StoreCall("init", "A", <<>>, TRUE, Loaded(<<>>), Loaded(<<>>),
                         {})
    /\ nops = 0
    /\ StratIdle
    /\ ConcIdle

AddMessageOnCall ==
    \E s \in sessions, role \in Roles, o \in AddOutcomes(cfg) :
        \E lfault \in LoadFaults(backend) :
            \E sfault \in {NoFault, Fault("dump", 1), Fault("insert", 1)} :
                AddMessageOn(s, role, 2, NoId, o, lfault, sfault)

GetHistoryOnCall ==
    \E s \in sessions, force_reload \in BOOLEAN :
        \E lfault \in LoadFaults(backend) :
            GetHistoryOn(s, force_reload, lfault)

ClearSessionOnCall == \E s \in sessions : ClearSessionOn(s)

SaveSessionOnCall ==
    \E s \in sessions :
        \E sfault \in {NoFault, Fault("dump", 1), Fault("insert", 1)} :
            SaveSessionOn(s, sfault)

BackedNext ==
    \/ AddMessageOnCall
    \/ GetHistoryOnCall
    \/ ClearSessionOnCall
    \/ SaveSessionOnCall
    \/ ListSessionsOn
    \/ NewManager

SpecBacked == BackedInit /\ [][BackedNext]_vars

\* --------------- the manager restarted over a store whose calls all succeed
\* auto-save is on; a new manager may replace the old one between two calls
RestartConfigs ==
    {NoStrategy(TRUE), Config("sum", 0, 0, TRUE, 0, 1, TRUE),
     Config("trim", MaxMessages - 1, 0, TRUE, 1, 0, TRUE)}

RestartInit ==
    /\ backend \in Backends
    /\ cfg \in RestartConfigs
    /\ clock = 0
    /\ sessions = {"A"}
    /\ cache = EmptyDict
    /\ storage = EmptyDict
    /\ files = EmptyDict
    /\ table = <<>>
    /\ last = MgrCall("init", "A", FALSE, NullMsg, <<>>, TRUE, NoException,
                      0)
    /\ slast = StoreCall("init", "A", <<>>, TRUE, Loaded(<<>>), Loaded(<<>>),
                         {})
    /\ nops = 0
    /\ StratIdle
    /\ ConcIdle

AddMessageSaved ==
    \E s \in sessions, role \in Roles, o \in AddOutcomes(cfg) :
        AddMessageOn(s, role, 2, NoId, o, NoFault, NoFault)

GetHistoryLoaded ==
    \E s \in sessions, force_reload \in BOOLEAN :
        GetHistoryOn(s, force_reload, NoFault)

ClearSessionDone == \E s \in sessions : ClearSessionOn(s)

RestartNext ==
    \/ AddMessageSaved
    \/ GetHistoryLoaded
    \/ ClearSessionDone
    \/ NewManager

SpecRestart == RestartInit /\ [][RestartNext]_vars

\* ------------------------------------------------ calls that interleave
\* Manager calls as coroutines.  A call runs atomically from one await of
\* an external collaborator (store.load_history, summarizer_llm.invoke,
\* store.save_history, store.clear_history) to the next; lists are objects
\* on a heap, so that an in-place append is seen through every reference.
Calls == 1..MaxCalls

IdleCall ==
    [op |-> "idle", sid |-> "A", pc |-> "idle", msg |-> NullMsg,
     loaded |-> <<>>, ref |-> 0, snap |-> <<>>, ret |-> <<>>]

Step(op, s) == Call(op, s, "none", 0, NoId, FALSE, NullMsg, <<>>)

\* add_message lines 68-74: save_history is called with the list the cache
\* holds at that moment
SaveStage(c, r, h, cr) ==
    /\ heap' = h
    /\ cacheRef' = cr
    /\ calls' = [calls EXCEPT ![c] =
                    IF cfg.auto_save
                    THEN [r EXCEPT !.pc = "saving", !.ref = cr[r.sid]]
                    ELSE [r EXCEPT !.pc = "done"]]

\* add_message lines 56-63, up to the await inside strategy.manage: the
\* append is in place; TrimmingStrategy.manage never awaits and returns its
\* argument or a new list; SummarizationStrategy.manage awaits the
\* summarizer once it has something to fold
AppendAndManage(c, r, h, cr) ==
    LET o == cr[r.sid]
        h1 == [h EXCEPT ![o] = Append(@, r.msg)]
        msgs == h1[o]
    IN CASE cfg.kind = "trim" /\ TrimShouldApply(cfg, msgs) ->
              SaveStage(c, r, Append(h1, TrimManage(cfg, msgs)),
                        DictSet(cr, r.sid, Len(h1) + 1))
         [] cfg.kind = "sum" /\ SumShouldApply(cfg, msgs)
                /\ SummarizableMessages(cfg, msgs) # <<>> ->
              /\ heap' = h1
              /\ cacheRef' = cr
              /\ calls' = [calls EXCEPT ![c] =
                              [r EXCEPT !.pc = "summarizing", !.ref = o,
                                        !.snap = msgs]]
         [] OTHER -> SaveStage(c, r, h1, cr)

\* variant: a call waits while another call on the same session is in flight
MayStartLocked(c, s) ==
    /\ calls[c].pc = "idle"
    /\ \A d \in Calls \ {c} :
          calls[d].pc \in {"idle", "done"} \/ calls[d].sid # s

\* variant: a call waits until no other call is in flight
MayStartAlone(c, s) ==
    /\ calls[c].pc = "idle"
    /\ \A d \in Calls \ {c} : calls[d].pc \in {"idle", "done"}

\* a manager method runs as soon as it is called: it takes no lock
MayStart(c, s) == calls[c].pc = "idle"

StartAdd(c, s) ==
    /\ MayStart(c, s)
    /\ LET r == [IdleCall EXCEPT !.op = "add", !.sid = s,
                     !.msg = NewMessage(s, "user", 2, NoId, clock + 1)]
       IN IF s \in DOMAIN cacheRef
          THEN AppendAndManage(c, r, heap, cacheRef)
          ELSE /\ calls' = [calls EXCEPT ![c] = [r EXCEPT !.pc = "loading"]]
               /\ UNCHANGED <<heap, cacheRef>>
    /\ clock' = clock + 1
    /\ last' = Step("add", s)
    /\ UNCHANGED <<cfg, sessions, storage, cache, nops, stratVars, storeVars>>

StartGet(c, s, force_reload) ==
    /\ MayStart(c, s)
    /\ LET r == [IdleCall EXCEPT !.op = "get", !.sid = s]
       IN calls' = [calls EXCEPT ![c] =
                       IF force_reload \/ s \notin DOMAIN cacheRef
                       THEN [r EXCEPT !.pc = "loading"]
                       ELSE [r EXCEPT !.pc = "done",
                                      !.ret = heap[cacheRef[s]]]]
    /\ last' = Step("get", s)
    /\ UNCHANGED <<cfg, clock, sessions, storage, cache, nops,
                 stratVars, storeVars,
                   heap, cacheRef>>

StartSave(c, s) ==
    /\ MayStart(c, s)
    /\ LET r == [IdleCall EXCEPT !.op = "save", !.sid = s]
       IN calls' = [calls EXCEPT ![c] =
                       IF s \in DOMAIN cacheRef
                       THEN [r EXCEPT !.pc = "saving", !.ref = cacheRef[s]]
                       ELSE [r EXCEPT !.pc = "done"]]
    /\ last' = Step("save", s)
    /\ UNCHANGED <<cfg, clock, sessions, storage, cache, nops,
                 stratVars, storeVars,
                   heap, cacheRef>>

StartClear(c, s) ==
    /\ MayStart(c, s)
    /\ calls' = [calls EXCEPT ![c] =
                    [IdleCall EXCEPT !.op = "clear", !.sid = s,
                                     !.pc = "clearing"]]
    /\ last' = Step("clear", s)
    /\ UNCHANGED <<cfg, clock, sessions, storage, cache, nops,
                 stratVars, storeVars,
                   heap, cacheRef>>

\* store.load_history reads the persisted list ...
LoadRead(c) ==
    /\ calls[c].pc = "loading"
    /\ calls' = [calls EXCEPT ![c] =
                    [@ EXCEPT !.pc = "loaded",
                              !.loaded = LoadHistory(storage, calls[c].sid)]]
    /\ last' = Step("load", calls[c].sid)
    /\ UNCHANGED <<cfg, clock, sessions, storage, cache, nops,
                 stratVars, storeVars,
                   heap, cacheRef>>

\* ... and the caller resumes: the loaded list becomes the cache entry
LoadReturn(c) ==
    /\ calls[c].pc = "loaded"
    /\ LET r == calls[c]
           h1 == Append(heap, r.loaded)
           cr1 == DictSet(cacheRef, r.sid, Len(heap) + 1)
       IN IF r.op = "add"
          THEN AppendAndManage(c, r, h1, cr1)
          ELSE /\ heap' = h1
               /\ cacheRef' = cr1
               /\ calls' = [calls EXCEPT ![c] =
                               [r EXCEPT !.pc = "done", !.ret = r.loaded]]
    /\ last' = Step("loaded", calls[c].sid)
    /\ UNCHANGED <<cfg, clock, sessions, storage, cache, nops,
                 stratVars, storeVars>>

\* summarizer_llm.invoke returns or raises: manage returns its argument (the
\* live list) or the list built from what it read before the await
SummarizerReturn(c, outcome) ==
    /\ calls[c].pc = "summarizing"
    /\ LET r == calls[c]
       IN IF outcome = "ok"
          THEN /\ SaveStage(c, r,
                            Append(heap, SumManage(cfg, r.snap, "ok", clock)),
                            DictSet(cacheRef, r.sid, Len(heap) + 1))
               /\ clock' = clock + 1
          ELSE /\ SaveStage(c, r, heap, DictSet(cacheRef, r.sid, r.ref))
               /\ clock' = clock
    /\ last' = Step("summarized", calls[c].sid)
    /\ UNCHANGED <<cfg, sessions, storage, cache, nops, stratVars, storeVars>>

\* store.save_history overwrites the persisted list with the list passed
SaveWrite(c) ==
    /\ calls[c].pc = "saving"
    /\ storage' = SaveHistory(storage, calls[c].sid, heap[calls[c].ref])
    /\ calls' = [calls EXCEPT ![c] = [@ EXCEPT !.pc = "done"]]
    /\ last' = Step("saved", calls[c].sid)
    /\ UNCHANGED <<cfg, clock, sessions, cache, nops,
                 stratVars, storeVars, heap,
                   cacheRef>>

\* clear_session: store.clear_history, then _cache.pop
ClearWrite(c) ==
    /\ calls[c].pc = "clearing"
    /\ storage' = ClearHistory(storage, calls[c].sid)
    /\ calls' = [calls EXCEPT ![c] = [@ EXCEPT !.pc = "cleared"]]
    /\ last' = Step("clearing", calls[c].sid)
    /\ UNCHANGED <<cfg, clock, sessions, cache, nops,
                 stratVars, storeVars, heap,
                   cacheRef>>

ClearReturn(c) ==
    /\ calls[c].pc = "cleared"
    /\ cacheRef' = DictPop(cacheRef, calls[c].sid)
    /\ calls' = [calls EXCEPT ![c] = [@ EXCEPT !.pc = "done"]]
    /\ last' = Step("cleared", calls[c].sid)
    /\ UNCHANGED <<cfg, clock, sessions, storage, cache, nops,
                 stratVars, storeVars,
                   heap>>

\* one step of call c
CallStep(c) ==
    \/ \E s \in sessions : StartAdd(c, s)
    \/ \E s \in sessions, f \in BOOLEAN : StartGet(c, s, f)
    \/ \E s \in sessions : StartSave(c, s)
    \/ \E s \in sessions : StartClear(c, s)
    \/ LoadRead(c)
    \/ LoadReturn(c)
    \/ \E o \in SummarizerOutcomes : SummarizerReturn(c, o)
    \/ SaveWrite(c)
    \/ ClearWrite(c)
    \/ ClearReturn(c)

ConcConfigs ==
    {NoStrategy(as) : as \in BOOLEAN}
    \cup {Config("trim", 1, 0, TRUE, 0, 0, TRUE),
          Config("sum", 0, 0, TRUE, 0, 0, TRUE)}

ConcInit ==
    /\ cfg \in ConcConfigs
    /\ clock = 0
    /\ sessions = {"A", "B"}
    /\ cache = EmptyDict
    /\ storage = EmptyDict
    /\ last = Step("init", "A")
    /\ nops = 0
    /\ StratIdle
    /\ StoreIdle
    /\ heap = <<>>
    /\ cacheRef = EmptyDict
    /\ calls = [c \in Calls |-> IdleCall]

StartAddStep == \E c \in Calls, s \in sessions : StartAdd(c, s)
StartGetStep ==
    \E c \in Calls, s \in sessions, f \in BOOLEAN : StartGet(c, s, f)
StartSaveStep == \E c \in Calls, s \in sessions : StartSave(c, s)
StartClearStep == \E c \in Calls, s \in sessions : StartClear(c, s)
LoadReadStep == \E c \in Calls : LoadRead(c)
LoadReturnStep == \E c \in Calls : LoadReturn(c)
SummarizerReturnStep ==
    \E c \in Calls, o \in SummarizerOutcomes : SummarizerReturn(c, o)
SaveWriteStep == \E c \in Calls : SaveWrite(c)
ClearWriteStep == \E c \in Calls : ClearWrite(c)
ClearReturnStep == \E c \in Calls : ClearReturn(c)

ConcNext ==
    \/ StartAddStep \/ StartGetStep \/ StartSaveStep \/ StartClearStep
    \/ LoadReadStep \/ LoadReturnStep \/ SummarizerReturnStep
    \/ SaveWriteStep \/ ClearWriteStep \/ ClearReturnStep

SpecConc == ConcInit /\ [][ConcNext]_vars

\* ------------------------- lists as objects: a caller changes a returned list
\* Sequential manager calls over MemoryStore with the cached lists on the
\* heap; calls holds the get_history call that returned last and the list
\* object it returned, which the caller then changes in place.

\* variant: get_history returns the cached list itself
GetHistoryObjectLive(h, cr, s) == [heap |-> h, ref |-> cr[s]]

\* get_history line 86: self._cache[session_id].copy(), a new list object
GetHistoryObject(h, cr, s) ==
    [heap |-> Append(h, h[cr[s]]), ref |-> Len(h) + 1]

\* the heap and the cache once session s is cached: store.load_history
\* returns a new list (memory_store_implementation.py:17)
HeapLoaded(h, cr, st, s, reload) ==
    IF reload \/ s \notin DOMAIN cr
    THEN [heap |-> Append(h, LoadHistory(st, s)),
          cacheRef |-> DictSet(cr, s, Len(h) + 1)]
    ELSE [heap |-> h, cacheRef |-> cr]

ObjAddMessage(s, role) ==
    LET message == NewMessage(s, role, 2, NoId, clock + 1)
        l == HeapLoaded(heap, cacheRef, storage, s, FALSE)
        o == l.cacheRef[s]
        h1 == [l.heap EXCEPT ![o] = Append(@, message)]
    IN /\ nops < MaxOps
       /\ nops' = nops + 1
       /\ clock' = clock + 1
       /\ heap' = h1
       /\ cacheRef' = l.cacheRef
       /\ storage' = IF cfg.auto_save THEN SaveHistory(storage, s, h1[o])
                     ELSE storage
       /\ last' = Step("add", s)
       /\ UNCHANGED <<cfg, sessions, cache, calls>>
       /\ UNCHANGED <<stratVars, storeVars>>

ObjGetHistory(s, force_reload) ==
    LET l == HeapLoaded(heap, cacheRef, storage, s, force_reload)
        r == GetHistoryObject(l.heap, l.cacheRef, s)
    IN /\ nops < MaxOps
       /\ nops' = nops + 1
       /\ heap' = r.heap
       /\ cacheRef' = l.cacheRef
       /\ calls' = <<[IdleCall EXCEPT !.op = "get", !.sid = s,
                                      !.pc = "done", !.ref = r.ref]>>
       /\ last' = Step("get", s)
       /\ UNCHANGED <<cfg, clock, sessions, cache, storage>>
       /\ UNCHANGED <<stratVars, storeVars>>

ObjSaveSession(s) ==
    /\ nops < MaxOps
    /\ nops' = nops + 1
    /\ storage' = IF s \in DOMAIN cacheRef
                  THEN SaveHistory(storage, s, heap[cacheRef[s]])
                  ELSE storage
    /\ last' = Step("save", s)
    /\ UNCHANGED <<cfg, clock, sessions, cache, heap, cacheRef, calls>>
    /\ UNCHANGED <<stratVars, storeVars>>

\* what the caller does to the list it was given
Reverse(l) == [i \in 1..Len(l) |-> l[Len(l) + 1 - i]]
CallerMessage == Message("assistant", 8, "none", KeyAbsent, 0, "A", 1, 0)
CallerChanges == {"append", "pop", "reverse"}

Changed(l, change) ==
    CASE change = "append" -> Append(l, CallerMessage)
      [] change = "pop" -> DropLastN(l, 1)
      [] OTHER -> Reverse(l)

CallerChangesList(change) ==
    /\ nops < MaxOps
    /\ calls # <<>>
    /\ Changed(heap[calls[1].ref], change) # heap[calls[1].ref]
    /\ nops' = nops + 1
    /\ heap' = [heap EXCEPT ![calls[1].ref] = Changed(@, change)]
    /\ last' = Step("change", calls[1].sid)
    /\ UNCHANGED <<cfg, clock, sessions, cache, storage, cacheRef, calls>>
    /\ UNCHANGED <<stratVars, storeVars>>

CopyInit ==
    /\ cfg \in {NoStrategy(as) : as \in BOOLEAN}
    /\ clock = 0
    /\ sessions = {"A"}
    /\ cache = EmptyDict
    /\ storage = EmptyDict
    /\ last = Step("init", "A")
    /\ nops = 0
    /\ heap = <<>>
    /\ cacheRef = EmptyDict
    /\ calls = <<>>
    /\ StratIdle
    /\ StoreIdle

ObjAddMessageCall == \E s \in sessions, role \in Roles : ObjAddMessage(s, role)

ObjGetHistoryCall ==
    \E s \in sessions, force_reload \in BOOLEAN :
        ObjGetHistory(s, force_reload)

ObjSaveSessionCall == \E s \in sessions : ObjSaveSession(s)

CallerChangesListStep == \E change \in CallerChanges : CallerChangesList(change)

CopyNext ==
    \/ ObjAddMessageCall
    \/ ObjGetHistoryCall
    \/ ObjSaveSessionCall
    \/ CallerChangesListStep

SpecCopy == CopyInit /\ [][CopyNext]_vars

\* ------------------------------------- strategies applied to any input list
\* Messages a caller can construct with Message(...) at draw k.  Under
\* trimming only role and content matter; under summarization role,
\* metadata and message_id do.
InputMessages(c, k) ==
    IF c.kind = "trim"
    THEN {Message(r, l, "none", KeyAbsent, 0, "A", k, k) :
            r \in Roles, l \in ContentLens}
    ELSE {Message("user", 2, "none", KeyAbsent, 0, "A", i, k) :
            i \in {NoId, k}}
         \cup {Message("system", 2, "none", KeyAbsent, 0, "A", k, k)}
         \cup {Message("system", 2, "summary", u, 1, "A", Uuid4(k), k) :
                 u \in {KeyAbsent, BlankUpto, 1, 2}}

StrategyInit ==
    /\ cfg \in TrimConfigs \cup SumConfigs
    /\ clock = 0
    /\ sin = <<>>
    /\ sout = <<>>
    /\ sout2 = <<>>
    /\ sphase = "build"
    /\ soutcome = "ok"
    /\ MgrIdle
    /\ ConcIdle
    /\ StoreIdle

SAppend ==
    /\ sphase = "build"
    /\ Len(sin) < MaxLen
    /\ \E m \in InputMessages(cfg, clock + 1) : sin' = Append(sin, m)
    /\ clock' = clock + 1
    /\ UNCHANGED <<cfg, sout, sout2, sphase, soutcome>>
    /\ UNCHANGED <<mgrVars, concVars, storeVars>>

SManage ==
    /\ sphase = "build"
    /\ \E o \in (IF cfg.kind = "sum" THEN SummarizerOutcomes ELSE {"ok"}) :
          /\ sout' = Manage(cfg, sin, o, clock)
          /\ clock' = clock + ManageDraws(cfg, sin, o)
          /\ soutcome' = o
    /\ sphase' = "once"
    /\ UNCHANGED <<cfg, sin, sout2>>
    /\ UNCHANGED <<mgrVars, concVars, storeVars>>

SManageAgain ==
    /\ sphase = "once"
    /\ sout2' = Manage(cfg, sout, soutcome, clock)
    /\ clock' = clock + ManageDraws(cfg, sout, soutcome)
    /\ sphase' = "twice"
    /\ UNCHANGED <<cfg, sin, sout, soutcome>>
    /\ UNCHANGED <<mgrVars, concVars, storeVars>>

StrategyNext == SAppend \/ SManage \/ SManageAgain

SpecStrategy == StrategyInit /\ [][StrategyNext]_vars

\* ------------------------------------------------------------ vocabulary
Range(s) == {s[i] : i \in 1..Len(s)}
TsOf(s) == {s[i].ts : i \in 1..Len(s)}
PosOfTs(s, t) == CHOOSE i \in 1..Len(s) : s[i].ts = t

\* messages of `before` that survive in `after` keep their relative order
\* (a message object is identified by its creation timestamp)
OrderKept(before, after) ==
    \A i, j \in 1..Len(after) :
        (i < j /\ after[i].ts \in TsOf(before) /\ after[j].ts \in TsOf(before))
            => PosOfTs(before, after[i].ts) < PosOfTs(before, after[j].ts)

\* the limits of the configuration as the documentation words them
WithinLimits(c, msgs) ==
    CASE c.kind = "trim" ->
            /\ c.max_messages # 0 => Len(msgs) <= c.max_messages
            /\ c.max_tokens # 0 => SumTokens(msgs) <= c.max_tokens
      [] c.kind = "sum" -> Len(msgs) <= c.trigger_count
      [] OTHER -> TRUE

\* ------------------------------------------------------------- claims

\* what GetHistory(s) without force_reload would return now
HistoryNow(s) == GetHistoryReturn(cache, storage, s, FALSE)

\* a message constructed by add_message (summaries carry no session_id)
IsOriginal(m) == m.sid # NoSid

\* the strategy cannot drop a message of this role the moment it is added
Protected(c, role) ==
    \/ c.kind = "none"
    \/ role # "system" /\ c.preserve_recent >= 1
    \/ role = "system" /\ c.preserve_system

\* C1 (as claimed): under every strategy and configuration, after
\* AddMessage(s, ...) returns, GetHistory(s) without force_reload contains
\* the message AddMessage returned.
C1_AddedMessageInHistory ==
    last.op = "add" => last.msg \in Range(HistoryNow(last.sid))

\* C1 (amended): after AddMessage(s, ...) returns, GetHistory(s) without
\* force_reload contains the returned message when no strategy is
\* configured, or the message is non-system and preserve_recent >= 1, or it
\* is a system message and preserve_system is true.
C1_ProtectedMessageInHistory ==
    (last.op = "add" /\ Protected(cfg, last.role))
        => last.msg \in Range(HistoryNow(last.sid))

C1_Witness ==
    /\ last.op = "add"
    /\ cfg.kind = "trim"
    /\ cfg.preserve_recent >= 1
    /\ clock = MaxOps
    /\ Len(cache[last.sid]) < MaxOps
    /\ last.msg \in Range(HistoryNow(last.sid))

\* C2: for one session under sequential calls, any two original messages
\* that are both in the list GetHistory returns appear in the order in which
\* their AddMessage calls completed.
C2_HistoryInAddOrder ==
    last.op = "get" =>
        \A i, j \in 1..Len(last.ret) :
            (i < j /\ IsOriginal(last.ret[i]) /\ IsOriginal(last.ret[j]))
                => last.ret[i].ts < last.ret[j].ts

\* C3: two AddMessage calls on one session that interleave at their awaits
\* can both return while the cached or the persisted list lacks one of the
\* two messages; nothing in the Manager excludes it: a call is never made to
\* wait for another call, neither to start on a session on which a call is
\* suspended nor to resume.
C3_NoMutualExclusion ==
    \A c \in Calls :
        /\ calls[c].pc # "done" => ENABLED CallStep(c)
        /\ calls[c].pc = "idle" =>
              \A s \in sessions : ENABLED StartAdd(c, s)

Suspended == {"loading", "loaded", "summarizing", "saving"}

LostUpdate(s) ==
    /\ \A c \in Calls :
          calls[c].op = "add" /\ calls[c].sid = s /\ calls[c].pc = "done"
    /\ s \in DOMAIN cacheRef
    /\ \E c \in Calls :
          \/ calls[c].msg \notin Range(heap[cacheRef[s]])
          \/ calls[c].msg \notin Range(LoadHistory(storage, s))

C3_Witness ==
    /\ cfg = NoStrategy(TRUE)
    /\ LostUpdate("A")

\* the state of session b that callers can observe
SessionState(b) ==
    <<b \in DOMAIN cacheRef,
      IF b \in DOMAIN cacheRef THEN heap[cacheRef[b]] ELSE <<>>,
      b \in DOMAIN storage,
      LoadHistory(storage, b)>>

\* C4: a Manager operation on session A leaves the cache entry and the
\* persisted list of every other session B unchanged, under every
\* interleaving of operations on different sessions (last is the step just
\* taken, last.sid the session of the call that took it).
C4_OtherSessionsUntouched ==
    [][\A b \in sessions :
          b # last'.sid => SessionState(b)' = SessionState(b)]_vars

C4_Witness ==
    /\ last.op = "cleared"
    /\ last.sid = "A"
    /\ \E c \in Calls : calls[c].sid = "B" /\ calls[c].pc = "saving"
    /\ "B" \in DOMAIN cacheRef
    /\ heap[cacheRef["B"]] # <<>>

C6_MessageIdsUnique ==
    \A s \in DOMAIN cache :
        /\ \A i, j \in 1..Len(cache[s]) :
              i # j => cache[s][i].id # cache[s][j].id
        /\ \A i \in 1..Len(cache[s]) : cache[s][i].id # NoId

\* C7: neither strategy's Manage reorders surviving messages: two input
\* messages that both appear in the result keep their relative order,
\* wherever system messages sit in the input.
C7_ManageKeepsOrder ==
    sphase # "build" => OrderKept(sin, sout)

\* C8: Manage returns its input unchanged whenever ShouldApply is false
\* (Trimming: count <= max_messages and tokens <= max_tokens;
\* Summarization: count <= trigger_count).
C8_NoOpWhenNotApplicable ==
    (sphase # "build" /\ (~ShouldApply(cfg, sin) \/ WithinLimits(cfg, sin)))
        => sout = sin

C8_Witness ==
    /\ sphase = "once"
    /\ cfg.kind = "trim"
    /\ cfg.max_messages = Len(sin)
    /\ cfg.max_tokens = SumTokens(sin)
    /\ Len(sin) >= 3
    /\ \E i, j \in 1..Len(sin) : i < j /\ NotSystem(sin[i]) /\ IsSystem(sin[j])
    /\ sout = sin

\* C9: TrimmingStrategy.Manage keeps every system message when
\* preserve_system is true, and keeps the last preserve_recent non-system
\* messages (all of them when there are fewer).
C9_ProtectedSetsKept ==
    (sphase # "build" /\ cfg.kind = "trim") =>
        /\ cfg.preserve_system =>
              Range(SelectSeq(sin, IsSystem)) \subseteq Range(sout)
        /\ cfg.preserve_recent > 0 =>
              Range(LastN(SelectSeq(sin, NotSystem), cfg.preserve_recent))
                  \subseteq Range(sout)

C9_Witness ==
    /\ sphase = "once"
    /\ cfg.kind = "trim"
    /\ cfg.preserve_system
    /\ cfg.preserve_recent = 2
    /\ TrimShouldApply(cfg, sin)
    /\ Len(SelectSeq(sin, IsSystem)) >= 1
    /\ Len(SelectSeq(sin, NotSystem)) >= 3
    /\ Len(sout) < Len(sin)
    /\ SumTokens(sout) > cfg.max_tokens
    /\ cfg.max_tokens # 0

\* C10: trimming is idempotent: Manage(Manage(L)) = Manage(L) for every
\* configuration and input list L.
C10_TrimIdempotent ==
    (sphase = "twice" /\ cfg.kind = "trim") => sout2 = sout

C10_Witness ==
    /\ sphase = "twice"
    /\ cfg.kind = "trim"
    /\ sout # sin
    /\ TrimShouldApply(cfg, sout)
    /\ sout2 = sout

\* b is a[n:] for some n
IsSuffix(b, a) == \E n \in 0..Len(a) : b = SubSeq(a, n + 1, Len(a))

\* the groups of the trimming result as the documentation words them
KeptSystem(c, msgs) ==
    IF c.preserve_system THEN SelectSeq(msgs, IsSystem) ELSE <<>>
KeptRecent(c, msgs) == LastN(SelectSeq(msgs, NotSystem), c.preserve_recent)
Remaining(c, msgs) == DropLastN(SelectSeq(msgs, NotSystem), c.preserve_recent)
CountQuota(c, msgs) ==
    c.max_messages - Len(KeptSystem(c, msgs)) - Len(KeptRecent(c, msgs))
TrailingByCount(c, msgs) ==
    IF CountQuota(c, msgs) <= 0 THEN <<>>
    ELSE LastN(Remaining(c, msgs), CountQuota(c, msgs))

\* the documented scenario: max_messages=5, preserve_recent=2 over
\* [sys, m1..m10]
ExampleTrimConfig == Config("trim", 5, 0, TRUE, 2, 0, TRUE)
ExampleTrimInput ==
    [i \in 1..11 |->
        Message(IF i = 1 THEN "system" ELSE "user", 2, "none", KeyAbsent, 0,
                "A", i, i)]
ExampleTrimResult ==
    <<ExampleTrimInput[1], ExampleTrimInput[8], ExampleTrimInput[9],
      ExampleTrimInput[10], ExampleTrimInput[11]>>

AfterCountBound(c, msgs) ==
    IF c.max_messages = 0 THEN Remaining(c, msgs)
    ELSE TrailingByCount(c, msgs)

Suffixes(a) == {SubSeq(a, n + 1, Len(a)) : n \in 0..Len(a)}

\* C12: trimming by tokens: when max_tokens is set and exceeded, trimmable
\* messages are dropped oldest-first (what is left of them is a trailing
\* part, and no longer trailing part would fit), and the result either has a
\* summed token count over system ++ trimmable ++ recent at or under
\* max_tokens or contains no trimmable message at all.
C12_TrimByTokens ==
    (sphase # "build" /\ cfg.kind = "trim" /\ cfg.max_tokens # 0
        /\ SumTokens(sin) > cfg.max_tokens) =>
        \E T \in Suffixes(AfterCountBound(cfg, sin)) :
            /\ sout = KeptSystem(cfg, sin) \o T \o KeptRecent(cfg, sin)
            /\ SumTokens(sout) <= cfg.max_tokens \/ T = <<>>
            /\ \A T2 \in Suffixes(AfterCountBound(cfg, sin)) :
                  Len(T2) > Len(T) =>
                      SumTokens(KeptSystem(cfg, sin) \o T2
                                    \o KeptRecent(cfg, sin)) > cfg.max_tokens

C12_Witness ==
    /\ sphase = "once"
    /\ cfg.kind = "trim"
    /\ cfg.max_messages = 0
    /\ cfg.max_tokens # 0
    /\ SumTokens(sin) > cfg.max_tokens
    /\ KeptSystem(cfg, sin) # <<>>
    /\ KeptRecent(cfg, sin) # <<>>
    /\ \E T \in Suffixes(Remaining(cfg, sin)) :
          /\ T # <<>>
          /\ Len(T) < Len(Remaining(cfg, sin))
          /\ sout = KeptSystem(cfg, sin) \o T \o KeptRecent(cfg, sin)
    /\ SumTokens(sout) <= cfg.max_tokens

\* the input of the Manage call made in SManage, with ids ensured
EnsuredInput == EnsureMessageIds(sin, clock - ManageDraws(cfg, sin, soutcome))

HasAnchor(m) == IsSummary(m) /\ m.upto # KeyAbsent

\* the working set W as the documentation words it: the regular messages
\* strictly after the message the last summary's summary_upto names, all
\* regular messages when there is no such summary or no such message
WorkingSet(msgs) ==
    LET regular == SelectSeq(msgs, NotSystem)
        anchored == SelectSeq(msgs, HasAnchor)
        at == IF anchored = <<>> THEN {}
              ELSE {i \in 1..Len(regular) :
                       regular[i].id = anchored[Len(anchored)].upto}
    IN IF at = {} THEN regular
       ELSE SubSeq(regular, (CHOOSE i \in at : \A j \in at : i <= j) + 1,
                   Len(regular))

Folded(c, msgs) == DropLastN(WorkingSet(msgs), c.preserve_recent)

\* the new summary sits right after the summaries of the input
IsNewSummaryFor(m, folded) ==
    /\ m.role = "system"
    /\ m.typ = "summary"
    /\ m.upto = folded[Len(folded)].id
    /\ m.cnt = Len(folded)
    /\ m.ts \notin TsOf(sin)

ResultWith(system, c, msgs, out) ==
    LET head == system \o SelectSeq(msgs, IsSummary)
    IN /\ Len(out) = Len(head) + 1
                       + Len(LastN(WorkingSet(msgs), c.preserve_recent))
       /\ SubSeq(out, 1, Len(head)) = head
       /\ IsNewSummaryFor(out[Len(head) + 1], Folded(c, msgs))
       /\ SubSeq(out, Len(head) + 2, Len(out))
              = LastN(WorkingSet(msgs), c.preserve_recent)

SummaryProduced ==
    /\ sphase = "once"
    /\ cfg.kind = "sum"
    /\ Len(sin) > cfg.trigger_count
    /\ soutcome = "ok"
    /\ Len(WorkingSet(EnsuredInput)) > cfg.preserve_recent

\* the documented scenario: trigger_count=6, preserve_recent=2 over m1..m8
ExampleSumConfig == Config("sum", 0, 0, TRUE, 2, 6, TRUE)
ExampleSumInput ==
    [i \in 1..8 |-> Message("user", 2, "none", KeyAbsent, 0, "A", i, i)]
ExampleSumHolds ==
    LET out == SumManage(ExampleSumConfig, ExampleSumInput, "ok", 8)
    IN /\ Len(out) = 3
       /\ IsSummary(out[1]) /\ out[1].upto = 6 /\ out[1].cnt = 6
       /\ out[2] = ExampleSumInput[7]
       /\ out[3] = ExampleSumInput[8]

\* C13 (as claimed): when the count exceeds trigger_count, the Summarizer
\* succeeds and the working set W has more than preserve_recent messages,
\* Manage returns plain-system messages ++ all existing summaries ++ one new
\* summary ++ the last preserve_recent messages of W, the new summary with
\* role system, type summary, summary_upto the id of the last folded message
\* and original_message_count the number of folded messages.
C13_SummarizationResult ==
    SummaryProduced =>
        ResultWith(SelectSeq(EnsuredInput, IsPlainSystem), cfg, EnsuredInput,
                   sout)

\* C13 (amended): as claimed, with the plain system messages in the result
\* only when preserve_system is true (they are dropped otherwise), and a
\* Summarizer that returns a non-empty text; trigger_count=6,
\* preserve_recent=2 over m1..m8 yields [summary(anchor=m6), m7, m8].
C13_SummarizationResultPreserved ==
    /\ SummaryProduced =>
          ResultWith(IF cfg.preserve_system
                     THEN SelectSeq(EnsuredInput, IsPlainSystem) ELSE <<>>,
                     cfg, EnsuredInput, sout)
    /\ ExampleSumHolds

C13_Witness ==
    /\ SummaryProduced
    /\ cfg.preserve_system
    /\ cfg.preserve_recent = 1
    /\ SelectSeq(sin, IsPlainSystem) # <<>>
    /\ SelectSeq(sin, IsSummary) # <<>>
    /\ Len(sout) = 4
    /\ IsNewSummaryFor(sout[3], Folded(cfg, EnsuredInput))
    /\ sout[4] = EnsuredInput[Len(sin)]

\* C14: over any sequence of AddMessage calls on one session in which
\* several summaries are produced, each new summary's summary_upto names a
\* message of the list that was appended strictly later than the message
\* named by every summary the list already held (timestamp_created records
\* when the named message was appended).
C14_AnchorsIncrease ==
    [][last'.op = "add" =>
          LET before == CachedOrLoaded(cache, storage, last'.sid)
              after == cache'[last'.sid]
          IN \A i \in 1..Len(after) :
                (IsSummary(after[i]) /\ after[i].ts \notin TsOf(before)) =>
                    /\ \E m \in Range(before) \cup {last'.msg} :
                          /\ m.id = after[i].upto
                          /\ m.ts = after[i].tsc
                    /\ \A j \in 1..Len(before) :
                          IsSummary(before[j]) =>
                              after[i].tsc > before[j].tsc]_vars

C14_Witness ==
    /\ last.op = "add"
    /\ LET h == cache[last.sid]
       IN /\ Len(h) = 3
          /\ IsSummary(h[1])
          /\ IsSummary(h[2])
          /\ h[2].ts > last.msg.ts
          /\ h[1].tsc < h[2].tsc
          /\ NotSystem(h[3])

SummariesOf(msgs) == SelectSeq(msgs, IsSummary)

\* the summaries of `after` are those of `before`, in the same order, then
\* at most one more
ChainGrows(before, after) ==
    /\ Len(SummariesOf(after)) \in
          {Len(SummariesOf(before)), Len(SummariesOf(before)) + 1}
    /\ SubSeq(SummariesOf(after), 1, Len(SummariesOf(before)))
          = SummariesOf(before)
    /\ \A i \in 1..Len(after) :
          (IsSummary(after[i]) /\ after[i].ts \in TsOf(before)) =>
              after[i] \in Range(before)

\* C15: the summary chain is append-only: every summary message in the input
\* of SummarizationStrategy.Manage is in its result, in the same relative
\* order, with any new summary placed after all of them, so over successive
\* Manage calls the sequence of summaries only grows at its end.
C15_SummaryChainAppendOnly ==
    cfg.kind = "sum" =>
        /\ sphase # "build" => ChainGrows(sin, sout)
        /\ sphase = "twice" => ChainGrows(sout, sout2)

C15_Witness ==
    /\ sphase = "twice"
    /\ cfg.kind = "sum"
    /\ soutcome = "ok"
    /\ Len(SummariesOf(sin)) = 2
    /\ IsSummary(sin[1]) /\ NotSystem(sin[2]) /\ IsSummary(sin[3])
    /\ Len(SummariesOf(sout)) = 3
    /\ SummariesOf(sout)[1] = sin[1]
    /\ SummariesOf(sout)[2] = sin[3]
    /\ SummariesOf(sout)[3].ts \notin TsOf(sin)
    /\ SummariesOf(sout2) = SummariesOf(sout)

\* the list `out` holds the messages of `inp`, one for one and in order, a
\* message without a message_id having been given one
SameMessages(inp, out) ==
    /\ Len(out) = Len(inp)
    /\ \A i \in 1..Len(inp) :
          \/ out[i] = inp[i]
          \/ /\ inp[i].id = NoId
             /\ out[i].id # NoId
             /\ out[i] = [inp[i] EXCEPT !.id = out[i].id]

SummarizerCalled ==
    /\ sphase = "once"
    /\ cfg.kind = "sum"
    /\ Len(sin) > cfg.trigger_count
    /\ Folded(cfg, EnsuredInput) # <<>>

\* C16: if the Summarizer fails, SummarizationStrategy.Manage raises nothing
\* and returns a list equal to its input: no message dropped, plain system
\* messages included when preserve_system is false, and no summary added
\* (the list returned is the input list, in which messages that had no
\* message_id have been given one).
C16_InputKeptOnFailure ==
    (SummarizerCalled /\ soutcome = "raise") =>
        /\ SameMessages(sin, sout)
        /\ sout = EnsuredInput
        /\ SummariesOf(sout) = SummariesOf(sin)

C16_Witness ==
    /\ SummarizerCalled
    /\ soutcome = "raise"
    /\ ~cfg.preserve_system
    /\ Len(sin) = MaxLen
    /\ SelectSeq(sin, IsPlainSystem) # <<>>
    /\ SummariesOf(sin) # <<>>
    /\ \E i \in 1..Len(sin) : sin[i].id = NoId
    /\ SameMessages(sin, sout)

\* R + 1 + (number of plain system messages) <= T for the list msgs
BudgetFits(c, msgs) ==
    c.preserve_recent + 1 + Len(SelectSeq(msgs, IsPlainSystem))
        <= c.trigger_count

\* the AddMessage just completed produced a summary
AddMadeSummary ==
    /\ last.op = "add"
    /\ \E m \in Range(cache[last.sid]) : IsSummary(m) /\ m.ts > last.msg.ts

\* C17 (as claimed): with SummarizationStrategy(trigger_count = T,
\* preserve_recent = R), a Summarizer that always succeeds and
\* R + 1 + (number of plain system messages) <= T, the session's list after
\* every AddMessage holds at most T messages.
C17_ListWithinTrigger ==
    (last.op = "add" /\ BudgetFits(cfg, cache[last.sid]))
        => Len(cache[last.sid]) <= cfg.trigger_count

\* C17 (amended): under the same conditions, after every AddMessage in which
\* a summary is produced the session's list holds at most T messages apart
\* from the summaries made before (plain system messages, the new summary
\* and R recent messages); the earlier summaries stay in the list, one more
\* with every summarization.
C17_ListWithinTriggerBesidesSummaries ==
    (AddMadeSummary /\ BudgetFits(cfg, cache[last.sid]))
        => Len(cache[last.sid]) - (Len(SummariesOf(cache[last.sid])) - 1)
               <= cfg.trigger_count

C17_Witness ==
    /\ AddMadeSummary
    /\ BudgetFits(cfg, cache[last.sid])
    /\ cfg.preserve_system
    /\ SelectSeq(cache[last.sid], IsPlainSystem) # <<>>
    /\ Len(SummariesOf(cache[last.sid])) = 2
    /\ Len(cache[last.sid]) = cfg.trigger_count + 1

HeldCached(s) == s \in DOMAIN cache /\ cache[s] # <<>>
HeldPersisted(s) == LoadHistory(storage, s) # <<>>

\* a list that a call other than ClearSession finds non-empty it leaves
\* non-empty, the cached one and the persisted one
KeptUnlessCleared ==
    last'.op # "clear" =>
        \A s \in sessions :
            /\ HeldCached(s) => HeldCached(s)'
            /\ HeldPersisted(s) => HeldPersisted(s)'

\* the strategy cannot return an empty list for a list that was just
\* appended to
NeverEmpties(c) ==
    \/ c.kind \in {"none", "sum"}
    \/ c.preserve_system /\ c.preserve_recent >= 1

\* C18 (as claimed): once a session's list holds at least one message, no
\* sequence of AddMessage, GetHistory (with or without force_reload),
\* GetContext, SaveSession or GetSessionStats makes its cached or persisted
\* list empty; only ClearSession does.
C18_OnlyClearEmpties == [][KeptUnlessCleared]_vars

\* C18 (amended): the same, for a manager with auto-save enabled whose
\* strategy is none, Summarization, or Trimming with preserve_system true
\* and preserve_recent >= 1.
C18_OnlyClearEmptiesSaved ==
    [][(cfg.auto_save /\ NeverEmpties(cfg)) => KeptUnlessCleared]_vars

C18_Witness ==
    /\ cfg.auto_save
    /\ cfg.kind = "trim"
    /\ NeverEmpties(cfg)
    /\ last.op = "get"
    /\ last.force
    /\ nops = MaxOps
    /\ clock = MaxOps - 1
    /\ last.ret # <<>>
    /\ Len(last.ret) < clock
    /\ HeldCached(last.sid)
    /\ HeldPersisted(last.sid)

\* C19: on every backend, for any ordered list M and any prior persisted
\* state of the session (earlier saves and appends included),
\* SaveHistory(id, M) followed by LoadHistory(id) returns a list equal to M
\* in every message field and in order.
C19_SaveThenLoadGivesSaved ==
    (slast.op = "save" /\ slast.ok)
        => Persisted(slast.sid) = Loaded(slast.msgs)

\* C20: if a SaveHistory call fails part-way, a following LoadHistory returns
\* exactly the list that was persisted before the call, on every backend.
C20_FailedSaveLeavesPersisted ==
    (slast.op = "save" /\ ~slast.ok) => Persisted(slast.sid) = slast.before

\* the persisted state of every backend
Stored == StoreState(storage, files, table)

\* C21: LoadHistory of a session the store holds nothing for returns an
\* empty list, not an error, and creates no persisted state: ListSessions
\* and the store are the same before and after the call.
C21_LoadOfUnknownSession ==
    [][(slast'.op = "load" /\ slast'.sid \notin Listed)
          => /\ slast'.ok
             /\ slast'.ret = Loaded(<<>>)
             /\ Listed' = Listed
             /\ Stored' = Stored]_vars

C21_Witness ==
    /\ slast.op = "load"
    /\ slast.sid = "B"
    /\ slast.ret = Loaded(<<>>)
    /\ Listed = {"A"}
    /\ backend = "json"

\* what every session loads, and what list_sessions gives, in a store state
Observed(b, state) ==
    [loads |-> [t \in sessions |->
                   PersistedIn(b, state.storage, state.files, state.table, t)],
     listed |-> ListedIn(b, state.storage, state.files, state.table)]

\* the state save_history(s, load_history(s) + [m]) leaves
LoadAppendSave(s, m) ==
    SavedIn(backend, storage, files, table, s,
            Append(Persisted(s).messages, m), NoFault)

\* load_history after append_message(s, m) gives the list it gave before
\* with m at the end
AppendedAtEnd(s, m) ==
    Persisted(s)' = Loaded(Append(Persisted(s).messages, m))

\* append_message(s, m) leaves what load, append and save leave
SameAsLoadAppendSave(s, m) ==
    Observed(backend, Stored)' = Observed(backend, LoadAppendSave(s, m))

\* append_message(s, m) has returned
Appended(s, m) ==
    /\ slast'.op = "append"
    /\ slast'.ok
    /\ slast'.sid = s
    /\ slast'.msgs = <<m>>

\* C22: AppendMessage is equivalent to Load + append + Save: on every
\* backend and from every persisted state, LoadHistory after
\* AppendMessage(id, m) equals LoadHistory before it with m added at the
\* end, the same state that SaveHistory(id, LoadHistory(id) ++ [m])
\* produces.
C22_AppendIsLoadAppendSave ==
    [][\A s \in sessions : \A m \in StoreMessages(s) :
          Appended(s, m)
              => AppendedAtEnd(s, m) /\ SameAsLoadAppendSave(s, m)]_vars

\* the store after clear_history(s), from the state it is in
ClearedNow(s) == ClearedIn(backend, storage, files, table, s)

\* clear_history(s) on a session the store holds nothing for changes
\* nothing, and a second clear_history(s) changes nothing more
ClearHistoryIdempotent(s) ==
    /\ s \notin Listed => ClearedNow(s) = Stored
    /\ ClearedIn(backend, ClearedNow(s).storage, ClearedNow(s).files,
                 ClearedNow(s).table, s) = ClearedNow(s)

\* clear_session(s) returns; on a session with nothing persisted it leaves
\* the store as it is, and the cache too when nothing is cached; a second
\* clear_session(s) would change neither
ClearSessionIdempotent(s) ==
    /\ last'.ok
    /\ s \notin Listed => Stored' = Stored
    /\ (s \notin Listed /\ s \notin DOMAIN cache) => cache' = cache
    /\ ClearedIn(backend', storage', files', table', s) = Stored'
    /\ ClearSessionCache(cache', s) = cache'

\* C23: clearing is idempotent: ClearHistory (and ClearSession) on a session
\* with no persisted state succeeds without error and changes nothing, and
\* clearing a session twice leaves the same state as clearing it once.
C23_ClearIsIdempotent ==
    [][/\ \A s \in sessions \cup {"B"} : ClearHistoryIdempotent(s)
       /\ \A s \in sessions :
             (last'.op = "clear" /\ last'.sid = s)
                 => ClearSessionIdempotent(s)]_vars

C23_Witness ==
    /\ last.op = "clear"
    /\ last.ok
    /\ nops = 1
    /\ Listed = {}
    /\ cache = EmptyDict
    /\ backend = "sqlite"

\* session s holds at least one message that load_history returns
HoldsMessages(s) == Persisted(s).ok /\ Persisted(s).messages # <<>>

\* the call just made wrote to session s (save_history or append_message,
\* whether it returned or raised)
WroteTo(s) == slast'.op \in {"save", "append"} /\ slast'.sid = s

\* C24: ListSessions returns exactly the session ids that currently have
\* persisted state: it is empty for a new store, includes every session with
\* at least one persisted message, excludes a session from its clear until
\* the next write to it, a session enters it only by a write to that
\* session, and list_sessions() returns it.
C24_ListSessionsExact ==
    [][/\ slast.op = "init" => Listed = {}
       /\ \A s \in sessions : HoldsMessages(s)' => s \in Listed'
       /\ slast'.op = "clear" => slast'.sid \notin Listed'
       /\ \A s \in sessions : (s \in Listed' /\ s \notin Listed) => WroteTo(s)
       /\ \A s \in sessions :
             (s \in Listed /\ s \notin Listed')
                 => (slast'.sid = s /\ slast'.op \in {"clear", "save"})
       /\ slast'.op = "list" => slast'.listed = Listed]_vars

C24_Witness ==
    /\ slast.op = "list"
    /\ slast.listed = {"B"}
    /\ HoldsMessages("B")
    /\ ~HoldsMessages("A")
    /\ backend = "postgres"

\* what the next get_history(s) returns, what the next get_context(s, ...)
\* returns for every argument, and what the next save_session(s) persists
NextHistory(s) ==
    IF s \in DOMAIN cacheRef THEN heap[cacheRef[s]]
    ELSE LoadHistory(storage, s)

NextAnswers(s) ==
    [history |-> NextHistory(s),
     reloaded |-> LoadHistory(storage, s),
     context |-> [a \in ContextLimits \X ContextRoles |->
                     ContextOf(NextHistory(s), a[1], a[2])],
     saved |-> IF s \in DOMAIN cacheRef
               THEN SaveHistory(storage, s, heap[cacheRef[s]]) ELSE storage]

\* C25: GetHistory returns a copy, never the live cache list: adding to,
\* removing from or reordering the returned list changes neither what later
\* GetHistory / GetContext calls return nor what a later save persists.
C25_ReturnedListIsACopy ==
    [][last'.op = "change"
          => \A s \in sessions : NextAnswers(s)' = NextAnswers(s)]_vars

C25_Witness ==
    /\ last.op = "change"
    /\ calls # <<>>
    /\ "A" \in DOMAIN cacheRef
    /\ heap[cacheRef["A"]] # <<>>
    /\ heap[calls[1].ref] = Reverse(heap[cacheRef["A"]])
    /\ heap[calls[1].ref] # heap[cacheRef["A"]]

\* the messages of an allow-list of roles, in order; {} is no allow-list
AllowedOnly(msgs, roles) ==
    LET Allowed(m) == m.role \in roles
    IN IF roles = {} THEN msgs ELSE SelectSeq(msgs, Allowed)

\* the last n entries of a list, for n >= 0
LastEntries(msgs, n) ==
    [i \in 1..(IF n < Len(msgs) THEN n ELSE Len(msgs)) |->
        msgs[Len(msgs) - (IF n < Len(msgs) THEN n ELSE Len(msgs)) + i]]

RoleAndContent(msgs) ==
    [i \in 1..Len(msgs) |-> [role |-> msgs[i].role, content |-> msgs[i].len]]

\* the example: [sys, user a, assistant b, user c], contents a, b, c being
\* texts of 1, 2 and 3 characters
ExampleContextInput ==
    <<NewMessage("A", "system", 8, NoId, 1), NewMessage("A", "user", 1, NoId, 2),
      NewMessage("A", "assistant", 2, NoId, 3),
      NewMessage("A", "user", 3, NoId, 4)>>

ExampleContextHolds ==
    ContextOf(ExampleContextInput, 2, {"user"})
        = <<[role |-> "user", content |-> 1], [role |-> "user", content |-> 3]>>

\* get_context has just returned, for a history it read from the cache
ContextReturned == last.op = "context"

\* C26: GetContext filters before it truncates: with max_messages absent or
\* positive, the result is the history restricted to the role allow-list
\* (order preserved), then cut to its last max_messages entries, each
\* projected to exactly {role, content}; max_messages=2, roles=[user] over
\* [sys, user a, assistant b, user c] yields [{user,a},{user,c}].
C26_ContextFiltersThenCuts ==
    /\ ExampleContextHolds
    /\ (ContextReturned /\ last.max_messages # 0)
          => last.ret =
                 RoleAndContent(
                     IF last.max_messages = NoLimit
                     THEN AllowedOnly(cache[last.sid], last.roles)
                     ELSE LastEntries(AllowedOnly(cache[last.sid],
                                                  last.roles),
                                      last.max_messages))

C26_Witness ==
    /\ ContextReturned
    /\ last.max_messages = 1
    /\ last.roles = {"user"}
    /\ Len(cache[last.sid]) = 3
    /\ cache[last.sid][2].role = "user"
    /\ cache[last.sid][3].role = "system"
    /\ last.ret = <<[role |-> "user", content |-> cache[last.sid][2].len]>>

\* C27: whenever the caller supplies max_messages (any non-negative integer,
\* 0 included), GetContext returns at most max_messages entries, and they
\* are the last max_messages entries of the role-filtered history.
C27_ContextAtMostMaxMessages ==
    (ContextReturned /\ last.max_messages # NoLimit)
        => /\ Len(last.ret) <= last.max_messages
           /\ last.ret =
                  RoleAndContent(LastEntries(AllowedOnly(cache[last.sid],
                                                         last.roles),
                                             last.max_messages))

\* what get_history(s) returns next, the store answering
GetHistoryNext(s) ==
    IF s \in DOMAIN cache THEN Loaded(cache[s])
    ELSE LoadedIn(backend, storage, files, table, s, NoFault)

\* the store holds nothing under session s
NothingStored(s) ==
    /\ s \notin DOMAIN storage
    /\ s \notin DOMAIN files
    /\ RowsOf(table, s) = <<>>

\* C28: after ClearSession(s) completes (sequential calls), the Store holds
\* no persisted state for s, the cache holds no entry for s, GetHistory(s)
\* returns an empty list and ListSessions does not contain s, whatever was
\* cached or persisted before.
C28_ClearedSessionIsGone ==
    (last.op = "clear" /\ last.ok)
        => /\ NothingStored(last.sid)
           /\ Persisted(last.sid) = Loaded(<<>>)
           /\ last.sid \notin DOMAIN cache
           /\ GetHistoryNext(last.sid) = Loaded(<<>>)
           /\ last.sid \notin Listed

C28_Witness ==
    /\ last.op = "clear"
    /\ last.ok
    /\ cfg = NoStrategy(TRUE)
    /\ backend = "json"
    /\ nops = 3
    /\ clock = 2
    /\ NothingStored(last.sid)

\* save_session(s) has just been called
SaveSessionCalled(s) == last'.op = "save" /\ last'.sid = s

\* C29: SaveSession(s) persists exactly the currently cached list of s when
\* a cache entry exists (afterwards LoadHistory(s) equals the cached list),
\* and is a no-op when nothing is cached for s: it raises nothing and leaves
\* the Store and the cache unchanged.
C29_SaveSessionPersistsCache ==
    [][\A s \in sessions :
          SaveSessionCalled(s)
              => /\ cache' = cache
                 /\ (s \in DOMAIN cache /\ last'.ok)
                        => Persisted(s)' = Loaded(cache[s])
                 /\ s \notin DOMAIN cache
                        => last'.ok /\ Stored' = Stored]_vars

\* add_message(s, ..) or get_history(s) has just been called with no cache
\* entry for s
CalledUncached(s) ==
    /\ last'.op \in {"add", "get"}
    /\ last'.sid = s
    /\ s \notin DOMAIN cache

\* the call raised what store.load_history raised
LoadErrorRaised ==
    /\ ~last'.ok
    /\ last'.err = StoreException(backend, "load_history")

\* C30: store errors propagate with state unchanged: if Store.LoadHistory
\* fails during AddMessage or GetHistory on an uncached session, the same
\* error reaches the caller, no cache entry is created for the session, the
\* message is not added, the Store is unchanged, and the Manager makes no
\* retry.
C30_LoadErrorPropagates ==
    [][\A s \in sessions :
          CalledUncached(s)
              => /\ ~Persisted(s).ok => LoadErrorRaised
                 /\ last'.err.call = "load_history"
                        => /\ LoadErrorRaised
                           /\ last'.loads = 1
                           /\ last'.msg = NullMsg
                           /\ cache' = cache
                           /\ Stored' = Stored]_vars

C30_Witness ==
    /\ last.op = "add"
    /\ ~last.ok
    /\ last.err = StoreException("json", "load_history")
    /\ last.loads = 1
    /\ last.sid \notin DOMAIN cache
    /\ ~Persisted(last.sid).ok

\* outcomes of a Summarizer call that give no summary text
SummarizerFailures == {"empty", "raise"}

\* the call returned its message and left the session's list one longer:
\* the list it found with the new message at the end
GrewByOne(s, message) ==
    /\ last'.op = "add"
    /\ last'.msg = message
    /\ cache'[s] = Append(CachedOrLoaded(cache, storage, s), message)

\* the call folded the regular messages after the last anchor, all but the
\* last preserve_recent, into one new summary
FoldedIntoOne(s, message) ==
    LET msgs == Append(CachedOrLoaded(cache, storage, s), message)
        folded == Folded(cfg, msgs)
        recent == LastN(WorkingSet(msgs), cfg.preserve_recent)
        after == cache'[s]
        new == {i \in 1..Len(after) :
                   IsSummary(after[i]) /\ after[i].ts \notin TsOf(msgs)}
    IN /\ last'.op = "add"
       /\ last'.msg = message
       /\ Cardinality(new) = 1
       /\ \A i \in new : /\ after[i].cnt = Len(folded)
                         /\ after[i].upto = folded[Len(folded)].id
                         /\ i = Len(after) - Len(recent)
       /\ \A j \in 1..Len(folded) : folded[j].ts \notin TsOf(after)
       /\ SubSeq(after, Len(after) - Len(recent) + 1, Len(after)) = recent

\* the Summarizer is invoked on the list msgs
SummarizerInvoked(c, msgs) ==
    /\ Len(msgs) > c.trigger_count
    /\ Len(WorkingSet(msgs)) > c.preserve_recent

\* what C31 says of one add_message call under Summarization; persisted
\* tells whether the call has to leave the list in the store
FailureRecoverable(persisted) ==
    \A s \in sessions, role \in Roles, len \in ContentLens, mid \in AddIds :
        LET message == NewMessage(s, role, len, mid, clock + 1)
            msgs == Append(CachedOrLoaded(cache, storage, s), message)
        IN /\ \A o \in SummarizerFailures :
                 AddMessage(s, role, len, mid, o) =>
                     /\ GrewByOne(s, message)
                     /\ persisted => LoadHistory(storage', s) = cache'[s]
           /\ (AddMessage(s, role, len, mid, "ok")
                  /\ SummarizerInvoked(cfg, msgs)) =>
                     /\ FoldedIntoOne(s, message)
                     /\ persisted => LoadHistory(storage', s) = cache'[s]

\* C31 (as claimed): while the Summarizer keeps failing, every AddMessage
\* still succeeds, is persisted and grows the session's list by exactly one
\* message; at the first later AddMessage where the Summarizer succeeds, all
\* regular messages accumulated since the last anchor except the last
\* preserve_recent are folded into one new summary.
C31_FailureRecoverable ==
    [][cfg.kind = "sum" => FailureRecoverable(TRUE)]_vars

\* C31 (amended): as claimed, the list being persisted by AddMessage when
\* auto-save is enabled; with auto-save disabled the list grows in the cache
\* only, and is folded there.
C31_FailureRecoverableAutoSave ==
    [][cfg.kind = "sum" => FailureRecoverable(cfg.auto_save)]_vars

\* three regular messages were folded with preserve_recent = 1 and
\* trigger_count = 2: the Summarizer failed on the third AddMessage and
\* succeeded on the fourth
C31_Witness ==
    /\ last.op = "add"
    /\ cfg.kind = "sum"
    /\ cfg.auto_save
    /\ cfg.preserve_recent = 1
    /\ cfg.trigger_count = 2
    /\ LET h == cache[last.sid]
       IN /\ Len(h) = 2
          /\ IsSummary(h[1])
          /\ h[1].cnt = 3
          /\ h[2] = last.msg
          /\ LoadHistory(storage, last.sid) = h

\* the regular messages of msgs strictly after position i
RegularAfter(msgs, i) ==
    SubSeq(SelectSeq(msgs, NotSystem), i + 1, Len(SelectSeq(msgs, NotSystem)))

\* positions, among the regular messages of msgs, of the messages that
\* carry the id the last summary's summary_upto names
AnchorPositions(msgs) ==
    LET regular == SelectSeq(msgs, NotSystem)
        prior == SelectSeq(msgs, HasAnchor)
    IN IF prior = <<>> THEN {}
       ELSE {i \in 1..Len(regular) : regular[i].id = prior[Len(prior)].upto}

\* the input of the Manage call made in SManage gave a new summary
NewSummaryIn(out) ==
    {i \in 1..Len(out) : IsSummary(out[i]) /\ out[i].ts \notin TsOf(sin)}

\* C32: when a prior summary exists and its summary_upto matches the
\* message_id of a regular message in the input (ids ensured), the working
\* set is exactly the regular messages strictly after that message (the
\* first that carries the id); when no regular message carries that id, or
\* no prior summary exists, it is all regular messages.  The working set is
\* what Manage splits into the folded and the preserved messages: the count
\* of a new summary and the preserved messages add up to it.
C32_WorkingSet ==
    (cfg.kind = "sum" /\ sphase = "once") =>
        LET regular == SelectSeq(EnsuredInput, NotSystem)
            prior == SelectSeq(EnsuredInput, HasAnchor)
            at == AnchorPositions(EnsuredInput)
            W == MessagesToProcess(cfg, EnsuredInput)
        IN /\ prior = <<>> => W = regular
           /\ (prior # <<>> /\ at = {}) => W = regular
           /\ (prior # <<>> /\ at # {}) =>
                 /\ \E i \in at : /\ \A j \in at : i <= j
                                  /\ W = RegularAfter(EnsuredInput, i)
           /\ \A n \in NewSummaryIn(sout) :
                 /\ sout[n].cnt = Len(DropLastN(W, cfg.preserve_recent))
                 /\ SubSeq(sout, n + 1, Len(sout))
                       = LastN(W, cfg.preserve_recent)
           /\ (Len(sin) > cfg.trigger_count /\ soutcome = "ok"
                  /\ Len(W) > cfg.preserve_recent) => NewSummaryIn(sout) # {}

\* [m1, summary(upto = m1), m3, m4] with preserve_recent = 1: the working
\* set is [m3, m4], m3 is folded and m4 kept
C32_Witness ==
    /\ cfg.kind = "sum"
    /\ sphase = "once"
    /\ soutcome = "ok"
    /\ cfg.preserve_recent = 1
    /\ Len(sin) = 4
    /\ NotSystem(sin[1]) /\ sin[1].id = 1
    /\ HasAnchor(sin[2]) /\ sin[2].upto = 1
    /\ NotSystem(sin[3]) /\ NotSystem(sin[4])
    /\ MessagesToProcess(cfg, EnsuredInput) = <<EnsuredInput[3], EnsuredInput[4]>>
    /\ Len(sout) = 3
    /\ sout[1] = sin[2]
    /\ IsSummary(sout[2]) /\ sout[2].cnt = 1 /\ sout[2].upto = EnsuredInput[3].id
    /\ sout[3] = EnsuredInput[4]

\* the input of the Manage call made in SManage as the call leaves it:
\* ids are filled in once the count exceeds trigger_count
InputAsRead == IF SumShouldApply(cfg, sin) THEN EnsuredInput ELSE sin

\* the last preserve_recent regular messages of that input
PreservedRecent ==
    LastN(SelectSeq(InputAsRead, NotSystem), cfg.preserve_recent)

\* no new summary counts a message of PreservedRecent among those it folds
RecentNotFolded ==
    \A n \in NewSummaryIn(sout) :
        sout[n].cnt = Len(WorkingSet(InputAsRead)) - Len(PreservedRecent)

\* C33 (as claimed): SummarizationStrategy.Manage never removes or folds the
\* last preserve_recent regular messages of its input; they appear verbatim
\* and in order at the end of the result, and when the working set has at
\* most preserve_recent messages Manage returns the input unchanged.
C33_PreserveRecent ==
    (cfg.kind = "sum" /\ sphase = "once") =>
        /\ RecentNotFolded
        /\ IsSuffix(PreservedRecent, sout)
        /\ Len(WorkingSet(InputAsRead)) <= cfg.preserve_recent
              => sout = InputAsRead

\* C33 (amended): Manage never removes or folds the last preserve_recent
\* regular messages of its input; they appear verbatim and in order in the
\* result as its last regular messages, at the end of the result whenever a
\* summary is produced, and when the working set has at most preserve_recent
\* messages Manage returns the input unchanged (a system message that
\* follows them in the input then follows them in the result).
C33_PreserveRecentAmongRegular ==
    (cfg.kind = "sum" /\ sphase = "once") =>
        /\ RecentNotFolded
        /\ LastN(SelectSeq(sout, NotSystem), cfg.preserve_recent)
              = PreservedRecent
        /\ NewSummaryIn(sout) # {} => IsSuffix(PreservedRecent, sout)
        /\ Len(WorkingSet(InputAsRead)) <= cfg.preserve_recent
              => sout = InputAsRead

\* four regular messages, trigger_count = 3 and preserve_recent = 2: two are
\* folded and the last two end the result
C33_Witness ==
    /\ cfg.kind = "sum"
    /\ sphase = "once"
    /\ soutcome = "ok"
    /\ cfg.preserve_recent = 2
    /\ Len(sin) = 4
    /\ \A i \in 1..4 : NotSystem(sin[i])
    /\ \E i \in 3..4 : sin[i].id = NoId
    /\ Len(sout) = 3
    /\ IsSummary(sout[1]) /\ sout[1].cnt = 2
    /\ <<sout[2], sout[3]>> = PreservedRecent
    /\ PreservedRecent = <<EnsuredInput[3], EnsuredInput[4]>>

\* the three stores give the same load_history result for session s
SameLoadHistory(s) ==
    /\ PersistedIn("memory", storage, files, table, s)
          = PersistedIn("json", storage, files, table, s)
    /\ PersistedIn("memory", storage, files, table, s)
          = PersistedIn("sqlite", storage, files, table, s)

\* the three stores give the same list_sessions set
SameListSessions ==
    /\ ListedIn("memory", storage, files, table)
          = ListedIn("json", storage, files, table)
    /\ ListedIn("memory", storage, files, table)
          = ListedIn("sqlite", storage, files, table)

\* C34 (store backends are interchangeable): after any sequence of
\* SaveHistory, AppendMessage and ClearHistory calls with well-formed
\* messages (including SaveHistory with an empty list), the in-memory,
\* file-per-session and SQLite stores return the same LoadHistory result for
\* every session and the same ListSessions set.
C34_BackendsInterchangeable ==
    /\ \A s \in sessions : SameLoadHistory(s)
    /\ SameListSessions

\* what get_history(s) gives in this state: the cached list, the store's
\* on a miss
Returned(s) ==
    IF s \in DOMAIN cache THEN Loaded(cache[s]) ELSE Persisted(s)

\* a new manager took over: get_history gives what it gave before
SameAfterRestart ==
    last'.op = "new" => \A s \in sessions : Returned(s)' = Returned(s)

\* the first add_message of a manager on session s: the persisted list
\* becomes strategy(old persisted list ++ [new message])
AppendsToPersisted(s) ==
    (last'.op = "add" /\ last'.sid = s /\ last'.ok /\ s \notin DOMAIN cache)
        => \E o \in AddOutcomes(cfg) :
              Persisted(s)' =
                  Loaded(Manage(cfg, Append(Persisted(s).messages, last'.msg),
                                o, clock + 1))

RestartSurvives ==
    /\ SameAfterRestart
    /\ \A s \in sessions : AppendsToPersisted(s)

\* C35 (restart survival): with auto-save enabled, discarding the Manager's
\* cache between operations (a new Manager over the same Store) does not
\* change what GetHistory returns, and the next AddMessage appends to the
\* previously persisted list instead of replacing it, so the persisted list
\* becomes strategy(old persisted list ++ [new message]).
C35_RestartSurvival == [][RestartSurvives]_vars

\* the session_id values of a list, in order
SessionIds(msgs) == [i \in 1..Len(msgs) |-> msgs[i].sid]

AllCarry(msgs, s) == \A i \in 1..Len(msgs) : msgs[i].sid = s

\* C36: every message in the cached and in the persisted list of session s
\* carries session_id = s after any sequence of AddMessage calls under any
\* strategy, the summaries SummarizationStrategy creates included, and a
\* save followed by a load leaves the value unchanged on every backend (the
\* list an AddMessage saved loads with the session_id values of the cached
\* list).
C36_MessagesCarrySessionId ==
    \A s \in sessions :
        /\ s \in DOMAIN cache => AllCarry(cache[s], s)
        /\ Persisted(s).ok
        /\ AllCarry(Persisted(s).messages, s)
        /\ (last.op = "add" /\ last.sid = s) =>
              SessionIds(Persisted(s).messages) = SessionIds(cache[s])

\* a get_history(s, force_reload=True) that returned: it returned the list
\* the store holds and left it as the cache entry, so that no message of
\* the replaced entry that the store does not hold is returned from now on
ReloadReplaces(s) ==
    (last'.op = "get" /\ last'.sid = s /\ last'.force /\ last'.ok) =>
        /\ Persisted(s).ok
        /\ last'.ret = Persisted(s).messages
        /\ last'.loads = 1
        /\ s \in DOMAIN cache'
        /\ cache'[s] = Persisted(s).messages
        /\ Persisted(s)' = Persisted(s)
        /\ Returned(s)' = Persisted(s)
        /\ s \in DOMAIN cache =>
              \A m \in Range(cache[s]) \ Range(Persisted(s).messages) :
                  m \notin Range(Returned(s)'.messages)

\* a later get_history(s) without force_reload returns the cache entry
LaterReturnsCached(s) ==
    (last'.op = "get" /\ last'.sid = s /\ ~last'.force /\ s \in DOMAIN cache)
        => /\ last'.ok
           /\ last'.ret = cache[s]
           /\ cache' = cache

ForceReloadReplaces ==
    \A s \in sessions : ReloadReplaces(s) /\ LaterReturnsCached(s)

\* C37: GetHistory(s, force_reload=true), when it returns, replaces the
\* cache entry of s with the Store's persisted list: the returned list
\* equals Store.LoadHistory(s), and cached messages that were never
\* persisted (auto-save disabled, or an earlier save failed) are no longer
\* returned by later GetHistory calls.
C37_ForceReloadReplaces == [][ForceReloadReplaces]_vars

\* auto-save is off: add, save_session, add, then get_history with
\* force_reload returns the first message only, the second is gone
C37_Witness ==
    /\ last.op = "get"
    /\ last.force
    /\ last.ok
    /\ ~cfg.auto_save
    /\ cfg.kind = "none"
    /\ nops = 4
    /\ clock = 2
    /\ Len(last.ret) = 1
    /\ last.ret[1].ts = 1
    /\ cache[last.sid] = last.ret
    /\ Persisted(last.sid) = Loaded(last.ret)

\* every call has completed, or was never made
AllCompleted == \A c \in Calls : calls[c].pc \in {"idle", "done"}

\* the completed AddMessage calls on session s
AddsOn(s) ==
    {c \in Calls :
        calls[c].op = "add" /\ calls[c].sid = s /\ calls[c].pc = "done"}

\* the cached list of session s differs from the list the store holds
Desynchronized(s) ==
    /\ s \in DOMAIN cacheRef
    /\ heap[cacheRef[s]] # LoadHistory(storage, s)

\* C38: with auto-save enabled, same-session AddMessage calls can interleave
\* at their suspension points (while one is suspended another may start on
\* the same session), and a state is reachable in which every call has
\* completed successfully and yet the cached list of the session differs
\* from the Store's persisted list (C38_Witness); a single AddMessage on a
\* session, with nothing to interleave with, never leaves such a state.
C38_DesyncNeedsInterleaving ==
    cfg.auto_save =>
        /\ \A c \in Calls, d \in Calls :
              (calls[c].op = "add" /\ calls[c].pc \in Suspended
                  /\ calls[d].pc = "idle")
                  => ENABLED StartAdd(d, calls[c].sid)
        /\ \A s \in sessions :
              (AllCompleted /\ Desynchronized(s)
                  /\ \A c \in Calls : calls[c].op \in {"add", "idle"})
                  => Cardinality(AddsOn(s)) >= 2

\* two AddMessage calls on session A have returned; the cache holds the
\* message of one and the store that of the other
C38_Witness ==
    /\ cfg = NoStrategy(TRUE)
    /\ AllCompleted
    /\ AddsOn("A") = Calls
    /\ Desynchronized("A")
    /\ Len(heap[cacheRef["A"]]) = 1
    /\ Len(LoadHistory(storage, "A")) = 1

\* sum of original_message_count over the summary messages of msgs
RECURSIVE CountedBySummaries(_)
CountedBySummaries(msgs) ==
    IF msgs = <<>> THEN 0
    ELSE (IF IsSummary(Head(msgs)) THEN Head(msgs).cnt ELSE 0)
         + CountedBySummaries(Tail(msgs))

\* the regular messages a list accounts for: those it holds and those its
\* summaries count
Accounted(msgs) ==
    Len(SelectSeq(msgs, NotSystem)) + CountedBySummaries(msgs)

\* every message_id of the list was generated
GeneratedIds(msgs) == \A i \in 1..Len(msgs) : msgs[i].id > UuidBase

\* an add_message call without message_id raises the account of the
\* session by one for a non-system message and by nothing for a system one
AddCountsOnce ==
    \A s \in sessions, role \in Roles, len \in ContentLens,
       o \in SummarizerOutcomes :
        (AddMessage(s, role, len, NoId, o)
            /\ GeneratedIds(CachedOrLoaded(cache, storage, s)))
            => Accounted(cache'[s])
                  = Accounted(CachedOrLoaded(cache, storage, s))
                    + (IF role = "system" THEN 0 ELSE 1)

\* a completed call other than add_message and clear_session leaves the
\* account of every session as it was
OthersKeepAccount(ops) ==
    (last'.op \in ops) =>
        \A s \in sessions : Accounted(HistoryNow(s))' = Accounted(HistoryNow(s))

\* the calls of the manager other than add_message and clear_session
OtherCalls == {"get", "save", "context", "stats"}

\* the step is a get_history call with force_reload=True
ForcedGet == last'.op = "get" /\ last'.force

\* C39 (as claimed): with SummarizationStrategy, auto-generated message ids
\* and no ClearSession, after every AddMessage the number of non-system
\* messages ever added to the session equals the number of non-system
\* messages in the list plus the sum of original_message_count over its
\* summary messages: the account starts at 0, every AddMessage raises it by
\* one for a non-system message, and no other call changes it.
C39_RegularMessagesConserved ==
    [][cfg.kind = "sum" => AddCountsOnce /\ OthersKeepAccount(OtherCalls)]_vars

\* C39 (amended): as claimed, with no ClearSession and, while auto-save is
\* disabled, no GetHistory(force_reload=true), which replaces the list by
\* the persisted one and discards the messages added since the last save.
C39_RegularMessagesConservedUnlessReloaded ==
    [][cfg.kind = "sum" =>
          /\ AddCountsOnce
          /\ (cfg.auto_save \/ ~ForcedGet) => OthersKeepAccount(OtherCalls)
      ]_vars

\* four regular messages added with trigger_count = 2, preserve_recent = 1:
\* two summaries that count two and one, and the last message
C39_Witness ==
    /\ last.op = "add"
    /\ cfg.kind = "sum"
    /\ nops = 4
    /\ LET h == cache[last.sid]
       IN /\ Len(h) = 3
          /\ IsSummary(h[1]) /\ h[1].cnt = 2
          /\ IsSummary(h[2]) /\ h[2].cnt = 1
          /\ NotSystem(h[3])
          /\ GeneratedIds(h)
          /\ Accounted(h) = 4

\* the faults of a save_history call that add_message and save_session meet
SaveFailures == {Fault("dump", 1), Fault("insert", 1)}

\* the list after holds m, or m is a regular message and a summary of after
\* counts it: after accounts for one message more than before without m
HeldOrFolded(before, after, m, added) ==
    \/ m \in Range(after)
    \/ /\ NotSystem(m)
       /\ Accounted(after) = Accounted(before) + added
       /\ Len(SelectSeq(after, IsSummary))
             = Len(SelectSeq(before, IsSummary)) + 1

\* the store holds the cache entry of s after the step: the same messages in
\* the same order, a summary possibly with the session_id the store gives it
PersistsCache(s) ==
    /\ Persisted(s)'.ok
    /\ Len(Persisted(s)'.messages) = Len(cache'[s])
    /\ \A i \in 1..Len(cache'[s]) :
          LET m == cache'[s][i]
              p == Persisted(s)'.messages[i]
          IN IF IsSummary(m) THEN [p EXCEPT !.sid = m.sid] = m ELSE p = m

\* an add_message whose auto-save fails raises the store's error and leaves
\* strategy(list ++ [message]) in the cache and not in the store
FailedAddKeepsMessage ==
    \A s \in sessions, role \in Roles, o \in AddOutcomes(cfg) :
        \A lfault \in LoadFaults(backend), sfault \in SaveFailures :
            LET message == NewMessage(s, role, 2, NoId, clock + 1)
                found == Returned(s).messages
                managed == Manage(cfg, Append(found, message), o, clock + 1)
            IN AddMessageOn(s, role, 2, NoId, o, lfault, sfault) =>
                  /\ cfg.auto_save
                  /\ ~last'.ok
                  /\ last'.err = StoreException(backend, "save_history")
                  /\ s \in DOMAIN cache'
                  /\ cache'[s] = managed
                  /\ Returned(s)' = Loaded(managed)
                  /\ HeldOrFolded(found, managed, message,
                                  IF role = "system" THEN 0 ELSE 1)
                  /\ Persisted(s)' # Loaded(cache'[s])
                  /\ message \notin Range(Persisted(s)'.messages)

\* a save_session that succeeds persists the cache entry; so does an
\* add_message that succeeds with auto-save, and the messages the entry held
\* before it are in the persisted list or counted by its new summary
LaterSavePersists ==
    \A s \in DOMAIN cache :
        /\ SaveSessionOn(s, NoFault) => PersistsCache(s) /\ cache' = cache
        /\ \A role \in Roles, o \in AddOutcomes(cfg) :
              (AddMessageOn(s, role, 2, NoId, o, NoFault, NoFault)
                  /\ cfg.auto_save) =>
                  /\ PersistsCache(s)
                  /\ \A m \in Range(cache[s]) :
                        IsSummary(m) \/
                        HeldOrFolded(cache[s], cache'[s], m,
                                     IF role = "system" THEN 0 ELSE 1)

SaveFailureLeavesCache ==
    /\ FailedAddKeepsMessage
    /\ LaterSavePersists
    /\ \A s \in sessions : LaterReturnsCached(s)

\* C40: if Store.SaveHistory fails during AddMessage with auto-save
\* enabled, the error propagates to the caller while the cache keeps the new
\* message (and any reduction the strategy made): GetHistory then returns a
\* message whose AddMessage failed, the cached list differs from the
\* persisted list, and a later successful SaveSession or AddMessage persists
\* that message.
C40_SaveFailureLeavesCache == [][SaveFailureLeavesCache]_vars

\* the second add_message folded both messages into a summary and its
\* INSERT failed: the cache holds the summary, the store the first message
C40_Witness ==
    /\ last.op = "add"
    /\ ~last.ok
    /\ last.err = StoreException("sqlite", "save_history")
    /\ cfg.kind = "sum"
    /\ "A" \in DOMAIN cache
    /\ Len(cache["A"]) = 1
    /\ IsSummary(cache["A"][1])
    /\ cache["A"][1].cnt = 2
    /\ Persisted("A").ok
    /\ Len(Persisted("A").messages) = 1
    /\ NotSystem(Persisted("A").messages[1])

====
